---- MODULE Spec2Model ----
(***************************************************************************)
(* A model of the J.League data viewer (app3_st.py): name normalisation,   *)
(* the fixture-table-to-ledger transform create_point_aggregate_df, the    *)
(* recent-form sum and the rank timeline loop of the viewer tab.           *)
(*                                                                         *)
(* Text is modelled as a sequence of characters.  An ASCII character is    *)
(* the one-character string itself ("J", "-", " "); any other character is *)
(* the token "uXXXX" of its code point ("u6D66" is U+6D66).  A cell of a   *)
(* scraped table is a Python object: a str or the float NaN of an empty    *)
(* cell.                                                                   *)
(***************************************************************************)
EXTENDS Integers, Sequences, FiniteSets, TLC

\* Bounds of the explored inputs.
MaxApply == 2
MaxRows == 3
MaxGateRows == 2
MaxFormRows == 7
MaxReplies == 3
MaxGoals == 1
MaxMatchDay == 2
MaxFetches == 3

VARIABLES
  pc,                      \* which part of the script has run
  site_table,              \* the fixture table of the site's page (None: no table in it)
  site_replies,            \* how the site answers one request after another
  requests_sent,           \* the requests.get calls made for the schedule page
  current_year,            \* st.session_state.current_year
  schedule_df,             \* st.session_state.schedule_df
  pointaggregate_df,       \* st.session_state.pointaggregate_df (the ledger)
  selected_league,         \* selected_league_sidebar_viewer
  all_match_dates,         \* the checkpoints of the rank timeline
  checkpoint_pos,          \* how many checkpoints the loop has done
  latest_stats_upto_date,  \* the loop's per-checkpoint table
  rank_history_df,         \* checkpoint -> team -> rank
  form_query,              \* the (team, league) calculate_recent_form was called with
  recent_form_points,      \* what calculate_recent_form returned
  name_trace,              \* a name and its successive normalisations
  combined_ranking_df,     \* st.session_state.combined_ranking_df (the standings)
  last_prediction,         \* the last call of predict_match_outcome and what it returned
  ranking_cache,           \* RankingDataProcessor.ranking_cache
  fetch_calls,             \* the calls of _fetch_past_ranking_data so far, as (year, match_day)
  last_call                \* the last call of the processor and what it returned

vars ==
  <<pc, site_table, site_replies, requests_sent, current_year, schedule_df, pointaggregate_df, selected_league,
    all_match_dates, checkpoint_pos, latest_stats_upto_date, rank_history_df,
    form_query, recent_form_points, name_trace,
    combined_ranking_df, last_prediction, ranking_cache, fetch_calls, last_call>>

----------------------------------------------------------------------------
\* Python objects and str methods

Str(s) == [type |-> "str", v |-> s]

NaN == [type |-> "float", v |-> <<"n", "a", "n">>]

None == [type |-> "NoneType", v |-> <<>>]

\* A table: its rows in order.
DataFrame(rows) == [type |-> "DataFrame", v |-> rows]

isinstance_str(x) == x.type = "str"

Range(f) == {f[k] : k \in DOMAIN f}

\* str.isspace() on the characters of the alphabet
Whitespace == {" ", "\t", "\n", "\r", "u00A0", "u3000"}

RECURSIVE str_lstrip(_)
str_lstrip(s) ==
  IF s = <<>> \/ s[1] \notin Whitespace THEN s ELSE str_lstrip(Tail(s))

RECURSIVE str_rstrip(_)
str_rstrip(s) ==
  IF s = <<>> \/ s[Len(s)] \notin Whitespace THEN s
  ELSE str_rstrip(SubSeq(s, 1, Len(s) - 1))

str_strip(s) == str_rstrip(str_lstrip(s))

StartsWith(s, old) == Len(s) >= Len(old) /\ SubSeq(s, 1, Len(old)) = old

\* str.replace(old, new): the non-overlapping occurrences, left to right
RECURSIVE str_replace(_, _, _)
str_replace(s, old, new) ==
  IF s = <<>> THEN <<>>
  ELSE IF StartsWith(s, old)
       THEN new \o str_replace(SubSeq(s, Len(old) + 1, Len(s)), old, new)
       ELSE <<s[1]>> \o str_replace(Tail(s), old, new)

\* unicodedata.normalize('NFKC', .) on the alphabet: a fullwidth Latin letter,
\* digit or punctuation mark folds to its ASCII form, U+3000 and U+00A0 fold to
\* a space, kana and kanji are unchanged.
HalfwidthForms ==
  <<
   "A", "B", "C", "D", "E", "F", "G", "H", "I", "J", "K", "L", "M", "N", "O", "P", "Q",
   "R", "S", "T", "U", "V", "W", "X", "Y", "Z", "a", "b", "c", "d", "e", "f", "g", "h",
   "i", "j", "k", "l", "m", "n", "o", "p", "q", "r", "s", "t", "u", "v", "w", "x", "y",
   "z", "0", "1", "2", "3", "4", "5", "6", "7", "8", "9", ".", "-", "/", "(", ")"
  >>

FullwidthForms ==
  <<
   "uFF21", "uFF22", "uFF23", "uFF24", "uFF25", "uFF26", "uFF27", "uFF28", "uFF29",
   "uFF2A", "uFF2B", "uFF2C", "uFF2D", "uFF2E", "uFF2F", "uFF30", "uFF31", "uFF32",
   "uFF33", "uFF34", "uFF35", "uFF36", "uFF37", "uFF38", "uFF39", "uFF3A", "uFF41",
   "uFF42", "uFF43", "uFF44", "uFF45", "uFF46", "uFF47", "uFF48", "uFF49", "uFF4A",
   "uFF4B", "uFF4C", "uFF4D", "uFF4E", "uFF4F", "uFF50", "uFF51", "uFF52", "uFF53",
   "uFF54", "uFF55", "uFF56", "uFF57", "uFF58", "uFF59", "uFF5A", "uFF10", "uFF11",
   "uFF12", "uFF13", "uFF14", "uFF15", "uFF16", "uFF17", "uFF18", "uFF19", "uFF0E",
   "uFF0D", "uFF0F", "uFF08", "uFF09"
  >>

NFKC_char(c) ==
  IF \E i \in DOMAIN FullwidthForms : FullwidthForms[i] = c
  THEN HalfwidthForms[CHOOSE i \in DOMAIN FullwidthForms : FullwidthForms[i] = c]
  ELSE IF c \in {"u3000", "u00A0"} THEN " " ELSE c

RECURSIVE NFKC(_)
NFKC(s) == IF s = <<>> THEN <<>> ELSE <<NFKC_char(s[1])>> \o NFKC(Tail(s))

----------------------------------------------------------------------------
\* The alias tables, entry by entry in source order

LEAGUE_NAME_MAPPING_literal ==
  <<
    <<<<"u660E", "u6CBB", "u5B89", "u7530", "J", "1", "u30EA", "u30FC", "u30B0">>, <<"J", "1">>>>,  \* 52: 明治安田J1リーグ -> J1
    <<<<"u660E", "u6CBB", "u5B89", "u7530", "u751F", "u547D", "J", "1", "u30EA", "u30FC", "u30B0">>, <<"J", "1">>>>,  \* 53: 明治安田生命J1リーグ -> J1
    <<<<"u660E", "u6CBB", "u5B89", "u7530", "J", "1">>, <<"J", "1">>>>,  \* 54: 明治安田J1 -> J1
    <<<<"J", "1">>, <<"J", "1">>>>,  \* 55: J1 -> J1
    <<<<"u660E", "u6CBB", "u5B89", "u7530", "J", "2", "u30EA", "u30FC", "u30B0">>, <<"J", "2">>>>,  \* 56: 明治安田J2リーグ -> J2
    <<<<"u660E", "u6CBB", "u5B89", "u7530", "u751F", "u547D", "J", "2", "u30EA", "u30FC", "u30B0">>, <<"J", "2">>>>,  \* 57: 明治安田生命J2リーグ -> J2
    <<<<"u660E", "u6CBB", "u5B89", "u7530", "J", "2">>, <<"J", "2">>>>,  \* 58: 明治安田J2 -> J2
    <<<<"J", "2">>, <<"J", "2">>>>,  \* 59: J2 -> J2
    <<<<"u660E", "u6CBB", "u5B89", "u7530", "J", "3", "u30EA", "u30FC", "u30B0">>, <<"J", "3">>>>,  \* 60: 明治安田J3リーグ -> J3
    <<<<"u660E", "u6CBB", "u5B89", "u7530", "u751F", "u547D", "J", "3", "u30EA", "u30FC", "u30B0">>, <<"J", "3">>>>,  \* 61: 明治安田生命J3リーグ -> J3
    <<<<"u660E", "u6CBB", "u5B89", "u7530", "J", "3">>, <<"J", "3">>>>,  \* 62: 明治安田J3 -> J3
    <<<<"J", "3">>, <<"J", "3">>>>,  \* 63: J3 -> J3
    <<<<"u30EB", "u30F4", "u30A1", "u30F3", "u30AB", "u30C3", "u30D7">>, <<"u30EB", "u30F4", "u30A1", "u30F3", "u30AB", "u30C3", "u30D7">>>>,  \* 64: ルヴァンカップ -> ルヴァンカップ
    <<<<"J", "u30EA", "u30FC", "u30B0", "Y", "B", "C", "u30EB", "u30F4", "u30A1", "u30F3", "u30AB", "u30C3", "u30D7">>, <<"u30EB", "u30F4", "u30A1", "u30F3", "u30AB", "u30C3", "u30D7">>>>  \* 65: JリーグYBCルヴァンカップ -> ルヴァンカップ
  >>

TEAM_NAME_MAPPING_literal ==
  <<
    <<<<"u6D66", "u548C">>, <<"u6D66", "u548C", "u30EC", "u30C3", "u30BA">>>>,  \* 72: 浦和 -> 浦和レッズ
    <<<<"u9E7F", "u5CF6">>, <<"u9E7F", "u5CF6", "u30A2", "u30F3", "u30C8", "u30E9", "u30FC", "u30BA">>>>,  \* 73: 鹿島 -> 鹿島アントラーズ
    <<<<"u6A2A", "u6D5C", "F", "M">>, <<"u6A2A", "u6D5C", "F", "u30FB", "u30DE", "u30EA", "u30CE", "u30B9">>>>,  \* 74: 横浜FM -> 横浜F・マリノス
    <<<<"F", "C", "u6771", "u4EAC">>, <<"F", "C", "u6771", "u4EAC">>>>,  \* 75: FC東京 -> FC東京
    <<<<"F", "u6771", "u4EAC">>, <<"F", "C", "u6771", "u4EAC">>>>,  \* 76: F東京 -> FC東京
    <<<<"u67CF">>, <<"u67CF", "u30EC", "u30A4", "u30BD", "u30EB">>>>,  \* 77: 柏 -> 柏レイソル
    <<<<"u795E", "u6238">>, <<"u30F4", "u30A3", "u30C3", "u30BB", "u30EB", "u795E", "u6238">>>>,  \* 78: 神戸 -> ヴィッセル神戸
    <<<<"G", "u5927", "u962A">>, <<"u30AC", "u30F3", "u30D0", "u5927", "u962A">>>>,  \* 79: G大阪 -> ガンバ大阪
    <<<<"C", "u5927", "u962A">>, <<"u30BB", "u30EC", "u30C3", "u30BD", "u5927", "u962A">>>>,  \* 80: C大阪 -> セレッソ大阪
    <<<<"u540D", "u53E4", "u5C4B">>, <<"u540D", "u53E4", "u5C4B", "u30B0", "u30E9", "u30F3", "u30D1", "u30B9">>>>,  \* 81: 名古屋 -> 名古屋グランパス
    <<<<"u672D", "u5E4C">>, <<"u5317", "u6D77", "u9053", "u30B3", "u30F3", "u30B5", "u30C9", "u30FC", "u30EC", "u672D", "u5E4C">>>>,  \* 82: 札幌 -> 北海道コンサドーレ札幌
    <<<<"u5E83", "u5CF6">>, <<"u30B5", "u30F3", "u30D5", "u30EC", "u30C3", "u30C1", "u30A7", "u5E83", "u5CF6">>>>,  \* 83: 広島 -> サンフレッチェ広島
    <<<<"u9CE5", "u6816">>, <<"u30B5", "u30AC", "u30F3", "u9CE5", "u6816">>>>,  \* 84: 鳥栖 -> サガン鳥栖
    <<<<"u5DDD", "u5D0E", "F">>, <<"u5DDD", "u5D0E", "u30D5", "u30ED", "u30F3", "u30BF", "u30FC", "u30EC">>>>,  \* 85: 川崎F -> 川崎フロンターレ
    <<<<"u6E58", "u5357">>, <<"u6E58", "u5357", "u30D9", "u30EB", "u30DE", "u30FC", "u30EC">>>>,  \* 86: 湘南 -> 湘南ベルマーレ
    <<<<"u65B0", "u6F5F">>, <<"u30A2", "u30EB", "u30D3", "u30EC", "u30C3", "u30AF", "u30B9", "u65B0", "u6F5F">>>>,  \* 87: 新潟 -> アルビレックス新潟
    <<<<"u4EAC", "u90FD">>, <<"u4EAC", "u90FD", "u30B5", "u30F3", "u30AC", "F", ".", "C", ".">>>>,  \* 88: 京都 -> 京都サンガF.C.
    <<<<"u78D0", "u7530">>, <<"u30B8", "u30E5", "u30D3", "u30ED", "u78D0", "u7530">>>>,  \* 89: 磐田 -> ジュビロ磐田
    <<<<"u798F", "u5CA1">>, <<"u30A2", "u30D3", "u30B9", "u30D1", "u798F", "u5CA1">>>>,  \* 90: 福岡 -> アビスパ福岡
    <<<<"u6A2A", "u6D5C", "C">>, <<"u6A2A", "u6D5C", "F", "C">>>>,  \* 91: 横浜C -> 横浜FC
    <<<<"u6771", "u4EAC", "V">>, <<"u6771", "u4EAC", "u30F4", "u30A7", "u30EB", "u30C7", "u30A3">>>>,  \* 92: 東京V -> 東京ヴェルディ
    <<<<"u6E05", "u6C34">>, <<"u6E05", "u6C34", "u30A8", "u30B9", "u30D1", "u30EB", "u30B9">>>>,  \* 93: 清水 -> 清水エスパルス
    <<<<"u5927", "u5BAE">>, <<"u5927", "u5BAE", "u30A2", "u30EB", "u30C7", "u30A3", "u30FC", "u30B8", "u30E3">>>>,  \* 94: 大宮 -> 大宮アルディージャ
    <<<<"u753A", "u7530">>, <<"F", "C", "u753A", "u7530", "u30BC", "u30EB", "u30D3", "u30A2">>>>,  \* 95: 町田 -> FC町田ゼルビア
    <<<<"u4ED9", "u53F0">>, <<"u30D9", "u30AC", "u30EB", "u30BF", "u4ED9", "u53F0">>>>,  \* 96: 仙台 -> ベガルタ仙台
    <<<<"u79CB", "u7530">>, <<"u30D6", "u30E9", "u30A6", "u30D6", "u30EA", "u30C3", "u30C4", "u79CB", "u7530">>>>,  \* 97: 秋田 -> ブラウブリッツ秋田
    <<<<"u5C71", "u5F62">>, <<"u30E2", "u30F3", "u30C6", "u30C7", "u30A3", "u30AA", "u5C71", "u5F62">>>>,  \* 98: 山形 -> モンテディオ山形
    <<<<"u6C34", "u6238">>, <<"u6C34", "u6238", "u30DB", "u30FC", "u30EA", "u30FC", "u30DB", "u30C3", "u30AF">>>>,  \* 99: 水戸 -> 水戸ホーリーホック
    <<<<"u6803", "u6728">>, <<"u6803", "u6728", "S", "C">>>>,  \* 100: 栃木 -> 栃木SC
    <<<<"u7FA4", "u99AC">>, <<"u30B6", "u30B9", "u30D1", "u7FA4", "u99AC">>>>,  \* 101: 群馬 -> ザスパ群馬
    <<<<"u5343", "u8449">>, <<"u30B8", "u30A7", "u30D5", "u30E6", "u30CA", "u30A4", "u30C6", "u30C3", "u30C9", "u5343", "u8449">>>>,  \* 102: 千葉 -> ジェフユナイテッド千葉
    <<<<"u7532", "u5E9C">>, <<"u30F4", "u30A1", "u30F3", "u30D5", "u30A9", "u30FC", "u30EC", "u7532", "u5E9C">>>>,  \* 103: 甲府 -> ヴァンフォーレ甲府
    <<<<"u91D1", "u6CA2">>, <<"u30C4", "u30A8", "u30FC", "u30B2", "u30F3", "u91D1", "u6CA2">>>>,  \* 104: 金沢 -> ツエーゲン金沢
    <<<<"u5CA1", "u5C71">>, <<"u30D5", "u30A1", "u30B8", "u30A2", "u30FC", "u30CE", "u5CA1", "u5C71">>>>,  \* 105: 岡山 -> ファジアーノ岡山
    <<<<"u5C71", "u53E3">>, <<"u30EC", "u30CE", "u30D5", "u30A1", "u5C71", "u53E3", "F", "C">>>>,  \* 106: 山口 -> レノファ山口FC
    <<<<"u5FB3", "u5CF6">>, <<"u5FB3", "u5CF6", "u30F4", "u30A9", "u30EB", "u30C6", "u30A3", "u30B9">>>>,  \* 107: 徳島 -> 徳島ヴォルティス
    <<<<"u611B", "u5A9B">>, <<"u611B", "u5A9B", "F", "C">>>>,  \* 108: 愛媛 -> 愛媛FC
    <<<<"u9577", "u5D0E">>, <<"V", "u30FB", "u30D5", "u30A1", "u30FC", "u30EC", "u30F3", "u9577", "u5D0E">>>>,  \* 109: 長崎 -> V・ファーレン長崎
    <<<<"u718A", "u672C">>, <<"u30ED", "u30A2", "u30C3", "u30BD", "u718A", "u672C">>>>,  \* 110: 熊本 -> ロアッソ熊本
    <<<<"u5927", "u5206">>, <<"u5927", "u5206", "u30C8", "u30EA", "u30CB", "u30FC", "u30BF">>>>,  \* 111: 大分 -> 大分トリニータ
    <<<<"u5CA9", "u624B">>, <<"u3044", "u308F", "u3066", "u30B0", "u30EB", "u30FC", "u30B8", "u30E3", "u76DB", "u5CA1">>>>,  \* 112: 岩手 -> いわてグルージャ盛岡
    <<<<"u798F", "u5CF6">>, <<"u798F", "u5CF6", "u30E6", "u30CA", "u30A4", "u30C6", "u30C3", "u30C9", "F", "C">>>>,  \* 113: 福島 -> 福島ユナイテッドFC
    <<<<"Y", "S", "u6A2A", "u6D5C">>, <<"Y", ".", "S", ".", "C", ".", "C", ".", "u6A2A", "u6D5C">>>>,  \* 114: YS横浜 -> Y.S.C.C.横浜
    <<<<"u76F8", "u6A21", "u539F">>, <<"S", "C", "u76F8", "u6A21", "u539F">>>>,  \* 115: 相模原 -> SC相模原
    <<<<"u677E", "u672C">>, <<"u677E", "u672C", "u5C71", "u96C5", "F", "C">>>>,  \* 116: 松本 -> 松本山雅FC
    <<<<"u5BCC", "u5C71">>, <<"u30AB", "u30BF", "u30FC", "u30EC", "u5BCC", "u5C71">>>>,  \* 117: 富山 -> カターレ富山
    <<<<"u6CBC", "u6D25">>, <<"u30A2", "u30B9", "u30EB", "u30AF", "u30E9", "u30ED", "u6CBC", "u6D25">>>>,  \* 118: 沼津 -> アスルクラロ沼津
    <<<<"u5C90", "u961C">>, <<"F", "C", "u5C90", "u961C">>>>,  \* 119: 岐阜 -> FC岐阜
    <<<<"u9CE5", "u53D6">>, <<"u30AC", "u30A4", "u30CA", "u30FC", "u30EC", "u9CE5", "u53D6">>>>,  \* 120: 鳥取 -> ガイナーレ鳥取
    <<<<"u8B83", "u5C90">>, <<"u30AB", "u30DE", "u30BF", "u30DE", "u30FC", "u30EC", "u8B83", "u5C90">>>>,  \* 121: 讃岐 -> カマタマーレ讃岐
    <<<<"u4ECA", "u6CBB">>, <<"F", "C", "u4ECA", "u6CBB">>>>,  \* 122: 今治 -> FC今治
    <<<<"u5317", "u4E5D", "u5DDE">>, <<"u30AE", "u30E9", "u30F4", "u30A1", "u30F3", "u30C4", "u5317", "u4E5D", "u5DDE">>>>,  \* 123: 北九州 -> ギラヴァンツ北九州
    <<<<"u7409", "u7403">>, <<"F", "C", "u7409", "u7403">>>>,  \* 124: 琉球 -> FC琉球
    <<<<"u5BAE", "u5D0E">>, <<"u30C6", "u30B2", "u30D0", "u30B8", "u30E3", "u30FC", "u30ED", "u5BAE", "u5D0E">>>>,  \* 125: 宮崎 -> テゲバジャーロ宮崎
    <<<<"u9E7F", "u5150", "u5CF6">>, <<"u9E7F", "u5150", "u5CF6", "u30E6", "u30CA", "u30A4", "u30C6", "u30C3", "u30C9", "F", "C">>>>,  \* 126: 鹿児島 -> 鹿児島ユナイテッドFC
    <<<<"u516B", "u6238">>, <<"u30F4", "u30A1", "u30F3", "u30E9", "u30FC", "u30EC", "u516B", "u6238">>>>,  \* 127: 八戸 -> ヴァンラーレ八戸
    <<<<"u5948", "u826F">>, <<"u5948", "u826F", "u30AF", "u30E9", "u30D6">>>>,  \* 128: 奈良 -> 奈良クラブ
    <<<<"u9577", "u91CE">>, <<"A", "C", "u9577", "u91CE", "u30D1", "u30EB", "u30BB", "u30A4", "u30ED">>>>,  \* 129: 長野 -> AC長野パルセイロ
    <<<<"u9AD8", "u77E5">>, <<"u9AD8", "u77E5", "u30E6", "u30CA", "u30A4", "u30C6", "u30C3", "u30C9", "S", "C">>>>,  \* 130: 高知 -> 高知ユナイテッドSC
    <<<<"u3044", "u308F", "u304D">>, <<"u3044", "u308F", "u304D", "F", "C">>>>,  \* 131: いわき -> いわきFC
    <<<<"u85E4", "u679D">>, <<"u85E4", "u679D", "M", "Y", "F", "C">>>>,  \* 132: 藤枝 -> 藤枝MYFC
    <<<<"u30B6", "u30B9", "u30D1", "u30AF", "u30B5", "u30C4", "u7FA4", "u99AC">>, <<"u30B6", "u30B9", "u30D1", "u7FA4", "u99AC">>>>,  \* 133: ザスパクサツ群馬 -> ザスパ群馬
    <<<<"u5C90", "u961C">>, <<"F", "C", "u5C90", "u961C">>>>,  \* 134: 岐阜 -> FC岐阜
    <<<<"u30AB", "u30DE", "u30BF", "u30DE", "u30FC", "u30EC", "u30B5", "u30CC", "u30AD">>, <<"u30AB", "u30DE", "u30BF", "u30DE", "u30FC", "u30EC", "u8B83", "u5C90">>>>,  \* 135: カマタマーレサヌキ -> カマタマーレ讃岐
    <<<<"Y", ".", "S", ".", "C", ".", "C", ".", "u6A2A", "u6D5C">>, <<"Y", ".", "S", ".", "C", ".", "C", ".", "u6A2A", "u6D5C">>>>,  \* 136: Y.S.C.C.横浜 -> Y.S.C.C.横浜
    <<<<"u6803", "u6728", "C">>, <<"u6803", "u6728", "u30B7", "u30C6", "u30A3">>>>,  \* 137: 栃木C -> 栃木シティ
    <<<<"u6803", "u6728", "S", "C">>, <<"u6803", "u6728", "S", "C">>>>  \* 138: 栃木SC -> 栃木SC
  >>

\* A dict literal: a key written twice keeps its last value.
DictOf(literal) ==
  [k \in {literal[i][1] : i \in DOMAIN literal} |->
     literal[CHOOSE i \in DOMAIN literal :
               /\ literal[i][1] = k
               /\ \A j \in DOMAIN literal : literal[j][1] = k => j <= i][2]]

LEAGUE_NAME_MAPPING == DictOf(LEAGUE_NAME_MAPPING_literal)

\* The table as the literal leaves it, without the loop after it.
BackfillCanonical_Skipped(d) == d

\* The loop after the literal: every canonical name that is no key yet becomes
\* a key of itself.
BackfillCanonical(d) ==
  [k \in DOMAIN d \cup Range(d) |-> IF k \in DOMAIN d THEN d[k] ELSE k]

TEAM_NAME_MAPPING == BackfillCanonical(DictOf(TEAM_NAME_MAPPING_literal))

FoldName(s) ==
  LET nfkc == NFKC(s)
      subst == str_replace(str_replace(str_replace(nfkc, <<"J">>, <<"J">>),
                                       <<"F", "C">>, <<"F", "C">>),
                           <<"F", "u30FB", "C">>, <<"F", "C">>)
  IN str_strip(str_replace(subst, <<"u3000">>, <<" ">>))

\* The two lookups with the team table asked first.
LookupIn_TeamFirst(normalized, league_mapping, team_mapping) ==
  IF normalized \in DOMAIN team_mapping THEN team_mapping[normalized]
  ELSE IF normalized \in DOMAIN league_mapping THEN league_mapping[normalized]
  ELSE normalized

\* if normalized in LEAGUE_NAME_MAPPING: return LEAGUE_NAME_MAPPING[normalized]
\* return TEAM_NAME_MAPPING.get(normalized, normalized)
LookupIn(normalized, league_mapping, team_mapping) ==
  IF normalized \in DOMAIN league_mapping THEN league_mapping[normalized]
  ELSE IF normalized \in DOMAIN team_mapping THEN team_mapping[normalized]
  ELSE normalized

LookupName(normalized) == LookupIn(normalized, LEAGUE_NAME_MAPPING, TEAM_NAME_MAPPING)

\* The same function with the trim moved after the table lookup.
normalize_j_name_TrimAfterLookup(name) ==
  IF isinstance_str(name)
  THEN LET nfkc == NFKC(name.v)
           subst == str_replace(nfkc, <<"F", "u30FB", "C">>, <<"F", "C">>)
       IN Str(str_strip(LookupName(str_replace(subst, <<"u3000">>, <<" ">>))))
  ELSE name

\* The same function giving back the name as it came when no table has it.
normalize_j_name_RawFallback(name) ==
  IF isinstance_str(name)
  THEN IF FoldName(name.v) \in DOMAIN LEAGUE_NAME_MAPPING \cup DOMAIN TEAM_NAME_MAPPING
       THEN Str(LookupName(FoldName(name.v)))
       ELSE name
  ELSE name

normalize_j_name(name) ==
  IF isinstance_str(name) THEN Str(LookupName(FoldName(name.v))) ELSE name

----------------------------------------------------------------------------
\* parse_match_date

Digits == <<"0", "1", "2", "3", "4", "5", "6", "7", "8", "9">>

\* \d on the characters of the date and score vocabulary
IsDigit(c) == c \in Range(Digits)

DigitValue(c) == (CHOOSE i \in DOMAIN Digits : Digits[i] = c) - 1

RECURSIVE ParseInt(_)
ParseInt(s) ==
  IF s = <<>> THEN 0
  ELSE ParseInt(SubSeq(s, 1, Len(s) - 1)) * 10 + DigitValue(s[Len(s)])

\* A date; NaT is the null date.
NaT == [year |-> 0, month |-> 0, day |-> 0]

\* Dates compare by this key.
DateKey(d) == d.year * 10000 + d.month * 100 + d.day

\* re.sub(r'\(.*?\)', '', s): each "(" up to the nearest ")" behind it on the
\* same line is removed.
RECURSIVE re_sub_parens(_)
re_sub_parens(s) ==
  IF s = <<>> THEN <<>>
  ELSE IF /\ s[1] = "("
          /\ \E j \in 2..Len(s) :
               s[j] = ")" /\ \A k \in 2..(j - 1) : s[k] \notin {")", "\n"}
       THEN LET j == CHOOSE j \in 2..Len(s) :
                       s[j] = ")" /\ \A k \in 2..(j - 1) : s[k] \notin {")", "\n"}
            IN re_sub_parens(SubSeq(s, j + 1, Len(s)))
       ELSE <<s[1]>> \o re_sub_parens(Tail(s))

AllDigits(s, from, to) ==
  /\ from <= to
  /\ to <= Len(s)
  /\ \A k \in from..to : IsDigit(s[k])

\* The end of a match of \d{1,2}/\d{1,2}/\d{1,2} that starts at i, 0 when there
\* is none.  Each \d{1,2} is greedy: two digits when two are there.
DateMatchEnd(s, i) ==
  LET Greedy(p) == IF AllDigits(s, p, p + 1) THEN 2 ELSE IF AllDigits(s, p, p) THEN 1 ELSE 0
      l1 == Greedy(i)
      p2 == i + l1 + 1
      l2 == Greedy(p2)
      p3 == p2 + l2 + 1
      l3 == Greedy(p3)
  IN IF /\ l1 > 0
        /\ i + l1 <= Len(s) /\ s[i + l1] = "/"
        /\ l2 > 0
        /\ p2 + l2 <= Len(s) /\ s[p2 + l2] = "/"
        /\ l3 > 0
     THEN p3 + l3 - 1
     ELSE 0

\* re.search(r'(\d{1,2}/\d{1,2}/\d{1,2})', s): group 1 of the leftmost match,
\* <<>> when nothing matches.
re_search_date(s) ==
  LET starts == {i \in 1..Len(s) : DateMatchEnd(s, i) > 0}
  IN IF starts = {} THEN <<>>
     ELSE LET i == CHOOSE i \in starts : \A k \in starts : i <= k
          IN SubSeq(s, i, DateMatchEnd(s, i))

IsLeap(y) == (y % 4 = 0 /\ y % 100 # 0) \/ y % 400 = 0

DaysInMonth(y, m) ==
  IF m = 2 THEN (IF IsLeap(y) THEN 29 ELSE 28)
  ELSE IF m \in {4, 6, 9, 11} THEN 30 ELSE 31

\* The three "/"-separated fields of a matched date core.
DateFields(part) ==
  LET s1 == CHOOSE i \in 1..Len(part) : part[i] = "/" /\ \A k \in 1..(i - 1) : part[k] # "/"
      s2 == CHOOSE i \in (s1 + 1)..Len(part) : part[i] = "/"
  IN <<SubSeq(part, 1, s1 - 1), SubSeq(part, s1 + 1, s2 - 1), SubSeq(part, s2 + 1, Len(part))>>

\* pd.to_datetime(part, format='%y/%m/%d', errors='coerce'): %y is two digits,
\* 00-68 in 2000-2068 and 69-99 in 1969-1999; %m is 1-12 and %d is 1-31, each
\* with or without a leading zero; an impossible date is NaT.
to_datetime_ymd(part) ==
  LET f == DateFields(part)
      yy == ParseInt(f[1])
      m == ParseInt(f[2])
      d == ParseInt(f[3])
      y == IF yy <= 68 THEN 2000 + yy ELSE 1900 + yy
  IN IF /\ Len(f[1]) = 2
        /\ m \in 1..12
        /\ d \in 1..DaysInMonth(y, m)
     THEN [year |-> y, month |-> m, day |-> d]
     ELSE NaT

\* The same function without the comparison of the parsed year with the season.
parse_match_date_AnyYear(date_str, year) ==
  IF ~isinstance_str(date_str) \/ date_str.v = <<>> THEN NaT
  ELSE LET date_part == re_search_date(str_strip(re_sub_parens(date_str.v)))
       IN IF date_part = <<>> THEN NaT ELSE to_datetime_ymd(str_strip(date_part))

parse_match_date(date_str, year) ==
  IF ~isinstance_str(date_str) \/ date_str.v = <<>> THEN NaT
  ELSE LET cleaned_date_str == str_strip(re_sub_parens(date_str.v))
           date_part == re_search_date(cleaned_date_str)
       IN IF date_part = <<>> THEN NaT
          ELSE LET parsed_date == to_datetime_ymd(str_strip(date_part))
               IN IF parsed_date = NaT \/ parsed_date.year # year THEN NaT
                  ELSE parsed_date

----------------------------------------------------------------------------
\* create_point_aggregate_df

\* Series.astype(str): a str stays, NaN becomes 'nan'.
astype_str(x) == x.v

\* df['スコア'].astype(str).str.replace('ー', '-').str.strip()
score_cleaned(score) == str_strip(str_replace(astype_str(score), <<"u30FC">>, <<"-">>))

\* The first position from i on that holds no digit.
RECURSIVE SkipDigits(_, _)
SkipDigits(s, i) ==
  IF i > Len(s) \/ ~IsDigit(s[i]) THEN i ELSE SkipDigits(s, i + 1)

\* The filter with \d* in place of \d+: a bare "-" passes.
score_contains_EmptyDigits(s) ==
  LET dash == SkipDigits(s, 1)
      stop == SkipDigits(s, dash + 1)
  IN /\ dash <= Len(s) /\ s[dash] = "-"
     /\ stop = Len(s) + 1

\* str.contains(r'^\d+-\d+$'): digits, one "-", digits, then the end of the
\* text ("$" also matches before a final newline).
score_contains(s) ==
  LET dash == SkipDigits(s, 1)
      stop == SkipDigits(s, dash + 1)
  IN /\ dash > 1
     /\ dash <= Len(s) /\ s[dash] = "-"
     /\ stop > dash + 1
     /\ \/ stop = Len(s) + 1
        \/ stop = Len(s) /\ s[stop] = "\n"

\* str.split('-', expand=True) and pd.to_numeric(...).fillna(0).astype(int)
score_H(s) == ParseInt(SubSeq(s, 1, SkipDigits(s, 1) - 1))

score_A(s) ==
  LET dash == SkipDigits(s, 1)
  IN ParseInt(SubSeq(s, dash + 1, SkipDigits(s, dash + 1) - 1))

\* 勝敗 and 勝点
WIN == "u52DD"

DRAW == "u5206"

LOSS == "u6557"

Outcome(goals_for, goals_against) ==
  IF goals_for > goals_against THEN WIN
  ELSE IF goals_for = goals_against THEN DRAW ELSE LOSS

\* Points with nothing given for a draw.
PointsOf_DrawZero(result) == IF result = WIN THEN 3 ELSE 0

PointsOf(result) == IF result = WIN THEN 3 ELSE IF result = DRAW THEN 1 ELSE 0

\* One row of home_df or away_df.  row is the index label of the fixture row
\* the entry was made from; concat(ignore_index=True) drops it in the program,
\* and the ledger keeps it here to tell the entries of one fixture row.
LedgerRow(row, league, date, team, opponent, goals_for, goals_against) ==
  [row |-> row, league |-> league, date |-> date, team |-> team, opponent |-> opponent,
   result |-> Outcome(goals_for, goals_against),
   goals_for |-> goals_for, goals_against |-> goals_against,
   goal_diff |-> goals_for - goals_against,
   points |-> PointsOf(Outcome(goals_for, goals_against))]

home_row(i, r, date) ==
  LedgerRow(i, r.league, date, r.home, r.away,
            score_H(score_cleaned(r.score)), score_A(score_cleaned(r.score)))

\* The away perspective with the two scores not exchanged.
away_row_NotSwapped(i, r, date) ==
  LedgerRow(i, r.league, date, r.away, r.home,
            score_H(score_cleaned(r.score)), score_A(score_cleaned(r.score)))

away_row(i, r, date) ==
  LedgerRow(i, r.league, date, r.away, r.home,
            score_A(score_cleaned(r.score)), score_H(score_cleaned(r.score)))

\* The members of a set of positions, in increasing order.
RECURSIVE AscendingSeq(_)
AscendingSeq(S) ==
  IF S = {} THEN <<>>
  ELSE LET least == CHOOSE i \in S : \A k \in S : i <= k
       IN <<least>> \o AscendingSeq(S \ {least})

\* The rows left after the score filter alone.
finished_rows_ScoreOnly(df, year) ==
  AscendingSeq({i \in 1..Len(df) : score_contains(score_cleaned(df[i].score))})

\* The rows left after the score filter and the date filter.
finished_rows(df, year) ==
  AscendingSeq({i \in 1..Len(df) :
                  /\ score_contains(score_cleaned(df[i].score))
                  /\ parse_match_date(df[i].date, year) # NaT})

\* pd.concat([home_df, away_df], ignore_index=True)
concat_home_away(df, year) ==
  LET kept == finished_rows(df, year)
      Date(i) == parse_match_date(df[i].date, year)
  IN [k \in 1..Len(kept) |-> home_row(kept[k], df[kept[k]], Date(kept[k]))]
       \o [k \in 1..Len(kept) |-> away_row(kept[k], df[kept[k]], Date(kept[k]))]

RECURSIVE Orderings(_)
Orderings(S) ==
  IF S = {} THEN {<<>>}
  ELSE UNION {{<<x>> \o p : p \in Orderings(S \ {x})} : x \in S}

\* The orders of the positions S of rows in which the keys do not decrease
\* (ascending) or do not increase.
RECURSIVE SortedOrders(_, _, _)
SortedOrders(rows, S, ascending) ==
  IF S = {} THEN {<<>>}
  ELSE LET first == CHOOSE i \in S : \A k \in S :
                      IF ascending THEN DateKey(rows[i].date) <= DateKey(rows[k].date)
                      ELSE DateKey(rows[i].date) >= DateKey(rows[k].date)
           ties == {i \in S : rows[i].date = rows[first].date}
       IN {p \o q : p \in Orderings(ties), q \in SortedOrders(rows, S \ ties, ascending)}

\* sort_values(by='試合日') with the default kind='quicksort', which is not a
\* stable sort: the result is one of the orderings by date, rows of one date in
\* any order.
sort_values_outcomes(rows, ascending) ==
  {[k \in 1..Len(rows) |-> rows[order[k]]] :
     order \in SortedOrders(rows, 1..Len(rows), ascending)}

\* The outcome that keeps rows of one date in their order before the sort.
RECURSIVE StableOrder(_, _)
StableOrder(rows, S) ==
  IF S = {} THEN <<>>
  ELSE LET first == CHOOSE i \in S : \A k \in S :
                      \/ DateKey(rows[i].date) < DateKey(rows[k].date)
                      \/ DateKey(rows[i].date) = DateKey(rows[k].date) /\ i <= k
       IN <<first>> \o StableOrder(rows, S \ {first})

sort_values_stable(rows) ==
  LET order == StableOrder(rows, 1..Len(rows))
  IN [k \in 1..Len(rows) |-> rows[order[k]]]

\* groupby(['チーム'])[col].cumsum() at position i of the sorted frame
RECURSIVE group_cumsum(_, _, _)
group_cumsum(rows, i, col) ==
  LET prev == {k \in 1..(i - 1) : rows[k].team = rows[i].team}
  IN rows[i][col]
       + (IF prev = {} THEN 0
          ELSE group_cumsum(rows, CHOOSE k \in prev : \A j \in prev : j <= k, col))

\* A running sum over the whole frame instead of per team.
with_cumsums_Ungrouped(rows) ==
  LET RECURSIVE Run(_, _)
      Run(i, col) == IF i = 0 THEN 0 ELSE rows[i][col] + Run(i - 1, col)
  IN [i \in 1..Len(rows) |->
        [row |-> rows[i].row, league |-> rows[i].league, date |-> rows[i].date,
         team |-> rows[i].team, opponent |-> rows[i].opponent, result |-> rows[i].result,
         goals_for |-> rows[i].goals_for, goals_against |-> rows[i].goals_against,
         goal_diff |-> rows[i].goal_diff, points |-> rows[i].points,
         cum_points |-> Run(i, "points"),
         cum_goal_diff |-> Run(i, "goal_diff"),
         cum_goals_for |-> Run(i, "goals_for")]]

\* Running sums that start again in each league.
with_cumsums_PerLeague(rows) ==
  LET RECURSIVE Run(_, _)
      Run(i, col) ==
        LET prev == {k \in 1..(i - 1) :
                       rows[k].team = rows[i].team /\ rows[k].league = rows[i].league}
        IN rows[i][col]
             + (IF prev = {} THEN 0
                ELSE Run(CHOOSE k \in prev : \A j \in prev : j <= k, col))
  IN [i \in 1..Len(rows) |->
        [row |-> rows[i].row, league |-> rows[i].league, date |-> rows[i].date,
         team |-> rows[i].team, opponent |-> rows[i].opponent, result |-> rows[i].result,
         goals_for |-> rows[i].goals_for, goals_against |-> rows[i].goals_against,
         goal_diff |-> rows[i].goal_diff, points |-> rows[i].points,
         cum_points |-> Run(i, "points"),
         cum_goal_diff |-> Run(i, "goal_diff"),
         cum_goals_for |-> Run(i, "goals_for")]]

\* The three cumulative columns 累積勝点, 累積得失点差, 累積総得点
with_cumsums(rows) ==
  [i \in 1..Len(rows) |->
        [row |-> rows[i].row, league |-> rows[i].league, date |-> rows[i].date,
         team |-> rows[i].team, opponent |-> rows[i].opponent, result |-> rows[i].result,
         goals_for |-> rows[i].goals_for, goals_against |-> rows[i].goals_against,
         goal_diff |-> rows[i].goal_diff, points |-> rows[i].points,
         cum_points |-> group_cumsum(rows, i, "points"),
         cum_goal_diff |-> group_cumsum(rows, i, "goal_diff"),
         cum_goals_for |-> group_cumsum(rows, i, "goals_for")]]

\* The ledgers create_point_aggregate_df(schedule_df, year) can return:
\* the empty frame for no table, an empty table or no finished row.
create_point_aggregate_df(df, year) ==
  IF df = None \/ df.v = <<>> THEN {<<>>}
  ELSE {with_cumsums(sorted) :
          sorted \in sort_values_outcomes(concat_home_away(df.v, year), TRUE)}

\* The ledger when the sort keeps rows of one date in their order.
create_point_aggregate_df_stable(df, year) ==
  IF df = None \/ df.v = <<>> THEN <<>>
  ELSE with_cumsums(sort_values_stable(concat_home_away(df.v, year)))

\* requests.get(url, headers=headers, timeout=10) and raise_for_status(), in
\* the try block: the page's table on status 200, otherwise an exception that
\* the except block turns into None.
requests_get(reply, page) == IF reply = "200" THEN page ELSE None

\* scrape_schedule_data: None when the request fails, else the table with its
\* three name columns normalised.
scrape_schedule_data(response) ==
  IF response = None THEN None
  ELSE DataFrame([i \in 1..Len(response.v) |->
                    [league |-> normalize_j_name(response.v[i].league),
                     date |-> response.v[i].date,
                     home |-> normalize_j_name(response.v[i].home),
                     score |-> response.v[i].score,
                     away |-> normalize_j_name(response.v[i].away)]])

----------------------------------------------------------------------------
\* calculate_recent_form

\* head(5)
RecentGames == 5

head(rows, n) == SubSeq(rows, 1, IF Len(rows) < n THEN Len(rows) ELSE n)

RECURSIVE SumPoints(_)
SumPoints(rows) == IF rows = <<>> THEN 0 ELSE rows[1].points + SumPoints(Tail(rows))

\* pointaggregate_df[(大会 == league) & (チーム == team)]
team_results(ledger, team, league) ==
  LET Match(e) == e.league = league /\ e.team = team
  IN SelectSeq(ledger, Match)

\* The sum with the rows sorted oldest first.
calculate_recent_form_OldestFirst(ledger, team, league) ==
  IF ledger = <<>> THEN {0}
  ELSE {SumPoints(head(sorted, RecentGames)) :
          sorted \in sort_values_outcomes(team_results(ledger, team, league), TRUE)}

\* The values calculate_recent_form(pointaggregate_df, team, league) can return.
calculate_recent_form(ledger, team, league) ==
  IF ledger = <<>> THEN {0}
  ELSE {SumPoints(head(sorted, RecentGames)) :
          sorted \in sort_values_outcomes(team_results(ledger, team, league), FALSE)}

----------------------------------------------------------------------------
\* The rank timeline of the viewer tab

\* pointaggregate_df[pointaggregate_df['大会'] == league]
filtered_df_rank(ledger, league) ==
  LET InLeague(e) == e.league = league
  IN SelectSeq(ledger, InLeague)

\* filtered_df_rank['試合日'].sort_values().unique()
match_dates(rows) ==
  LET keys == {DateKey(rows[i].date) : i \in DOMAIN rows}
      RECURSIVE Asc(_)
      Asc(K) == IF K = {} THEN <<>>
                ELSE LET least == CHOOSE k \in K : \A j \in K : k <= j
                         d == rows[CHOOSE i \in DOMAIN rows : DateKey(rows[i].date) = least].date
                     IN <<d>> \o Asc(K \ {least})
  IN Asc(keys)

\* filtered_df_rank['チーム'].unique()
teams_of(rows) == {rows[i].team : i \in DOMAIN rows}

MaxOf(S) == CHOOSE x \in S : \A y \in S : y <= x

\* The league's rows of the whole season, whatever the checkpoint.
df_upto_date_WholeSeason(rows, current_date) == rows

\* The league's rows of the checkpoint's date alone.
df_upto_date_ThisDateOnly(rows, current_date) ==
  LET On(e) == DateKey(e.date) = DateKey(current_date)
  IN SelectSeq(rows, On)

\* filtered_df_rank[filtered_df_rank['試合日'] <= current_date]
df_upto_date(rows, current_date) ==
  LET Upto(e) == DateKey(e.date) <= DateKey(current_date)
  IN SelectSeq(rows, Upto)

\* groupby('チーム')[['累積勝点', '累積得失点差', '累積総得点']].max()
group_stats(upto) ==
  [t \in teams_of(upto) |->
     LET mine == {i \in DOMAIN upto : upto[i].team = t}
     IN [cum_points |-> MaxOf({upto[i].cum_points : i \in mine}),
         cum_goal_diff |-> MaxOf({upto[i].cum_goal_diff : i \in mine}),
         cum_goals_for |-> MaxOf({upto[i].cum_goals_for : i \in mine})]]

\* Weighted_Score is a float64 that holds whole numbers beyond 2^31, each of them
\* exactly; here such a number is the pair (hi, lo) with value hi * 10^6 + lo
\* and 0 <= lo < 10^6.
Million == 1000000

Whole(hi, lo) == [hi |-> hi + (lo \div Million), lo |-> lo % Million]

WholeLess(a, b) == a.hi < b.hi \/ (a.hi = b.hi /\ a.lo < b.lo)

\* The score with points weighted like goal difference.
Weighted_Score_SameWeight(s) ==
  Whole(s.cum_points + s.cum_goal_diff, s.cum_goals_for)

\* 累積勝点 * 1e9 + 累積得失点差 * 1e6 + 累積総得点
Weighted_Score(s) ==
  Whole(s.cum_points * 1000 + s.cum_goal_diff, s.cum_goals_for)

\* The values of a column, largest first.
RECURSIVE SortDescending(_, _)
SortDescending(score, T) ==
  IF T = {} THEN <<>>
  ELSE LET top == CHOOSE t \in T : \A u \in T : ~WholeLess(score[t], score[u])
       IN <<score[top]>> \o SortDescending(score, T \ {top})

\* Dense ranking: equal values share a rank and no rank is skipped.
rank_min_descending_Dense(score) ==
  [t \in DOMAIN score |->
     1 + Cardinality({score[u] : u \in {u \in DOMAIN score : WholeLess(score[t], score[u])}})]

\* Series.rank(method='min', ascending=False): a value's rank is the first
\* position it takes when the values are sorted largest first.
rank_min_descending(score) ==
  LET sorted == SortDescending(score, DOMAIN score)
  IN [t \in DOMAIN score |->
        CHOOSE i \in DOMAIN sorted :
          sorted[i] = score[t] /\ \A k \in DOMAIN sorted : sorted[k] = score[t] => i <= k]

\* latest_stats_upto_date at one checkpoint, with Weighted_Score and Rank
stats_at(rows, current_date) ==
  LET stats == group_stats(df_upto_date(rows, current_date))
      score == [t \in DOMAIN stats |-> Weighted_Score(stats[t])]
      rank == rank_min_descending(score)
  IN [t \in DOMAIN stats |->
        [cum_points |-> stats[t].cum_points,
         cum_goal_diff |-> stats[t].cum_goal_diff,
         cum_goals_for |-> stats[t].cum_goals_for,
         Weighted_Score |-> score[t],
         Rank |-> rank[t]]]

\* A cell of rank_history_df: <<>> is NaN, <<r>> is the rank r.
NoRank == <<>>

\* DataFrame.ffill(): a NaN cell takes the value above it.
RECURSIVE ffill(_)
ffill(history) ==
  IF Len(history) <= 1 THEN history
  ELSE LET above == ffill(SubSeq(history, 1, Len(history) - 1))
           last == history[Len(history)]
       IN Append(above,
                 [t \in DOMAIN last |->
                    IF last[t] = NoRank THEN above[Len(above)][t] ELSE last[t]])

----------------------------------------------------------------------------
\* predict_match_outcome
\*
\* The weights are numbers of two decimals; the model counts every score in
\* hundredths (0.80 is 80, a manual adjustment of +0.5 is 50).

WEIGHT_RANK == 80
WEIGHT_FORM == 850
WEIGHT_OFFENSE == 40
WEIGHT_DEFENSE == 40
HOME_ADVANTAGE == 110
DRAW_THRESHOLD == 150

\* The slider of the manual adjustment: -10.0 .. 10.0 in steps of 0.5.
SliderMax == 1000
SliderStep == 50
SliderMin == 0 - SliderMax
SliderValues == {k * SliderStep : k \in (SliderMin \div SliderStep)..(SliderMax \div SliderStep)}

\* A row of the standings.
RankingRow(league, team, rank, goals_scored, goals_against) ==
  [league |-> league, team |-> team, rank |-> rank,
   goals_scored |-> goals_scored, goals_against |-> goals_against]

\* combined_ranking_df[combined_ranking_df['大会'] == selected_league]
ranking_df_league(ranking_df, league) ==
  LET InLeague(r) == r.league = league
  IN SelectSeq(ranking_df, InLeague)

\* ranking_df_league['チーム'].values
ranking_teams(league_df) == {league_df[k].team : k \in DOMAIN league_df}

\* {チーム: 順位} of a league; of two rows of one team to_dict keeps the last.
get_ranking_data_for_prediction(ranking_df, league) ==
  LET league_df == ranking_df_league(ranking_df, league)
      Last(t) == CHOOSE k \in DOMAIN league_df :
                   /\ league_df[k].team = t
                   /\ \A j \in DOMAIN league_df : league_df[j].team = t => j <= k
  IN [t \in ranking_teams(league_df) |-> league_df[Last(t)].rank]

\* ranking_df_league[ranking_df_league['チーム'] == team].iloc[0]
iloc0(league_df, team) ==
  league_df[CHOOSE k \in DOMAIN league_df :
              /\ league_df[k].team = team
              /\ \A j \in DOMAIN league_df : league_df[j].team = team => k <= j]

\* The sum with the adjustment taken off instead of added.
score_breakdown_SubtractAdjustment(home_team, away_team, league, ranking_df, form_H, form_A, manual_adjustment) ==
  LET league_df == ranking_df_league(ranking_df, league)
      ranking == get_ranking_data_for_prediction(ranking_df, league)
      home == iloc0(league_df, home_team)
      away == iloc0(league_df, away_team)
      rank_score_H == (ranking[away_team] - ranking[home_team]) * WEIGHT_RANK
      form_score_H == (form_H - form_A) * WEIGHT_FORM
      offense_score_H == (home.goals_scored - away.goals_scored) * WEIGHT_OFFENSE
      defense_score_H == (away.goals_against - home.goals_against) * WEIGHT_DEFENSE
  IN [rank_score_H |-> rank_score_H, form_score_H |-> form_score_H,
      offense_score_H |-> offense_score_H, defense_score_H |-> defense_score_H,
      home_advantage_score |-> HOME_ADVANTAGE, manual_adjustment |-> manual_adjustment,
      home_win_score |-> rank_score_H + form_score_H + offense_score_H + defense_score_H
                           + HOME_ADVANTAGE - manual_adjustment]

\* The five parts of the score and their sum, as last_prediction_debug has them.
score_breakdown(home_team, away_team, league, ranking_df, form_H, form_A, manual_adjustment) ==
  LET league_df == ranking_df_league(ranking_df, league)
      ranking == get_ranking_data_for_prediction(ranking_df, league)
      home == iloc0(league_df, home_team)
      away == iloc0(league_df, away_team)
      rank_score_H == (ranking[away_team] - ranking[home_team]) * WEIGHT_RANK
      form_score_H == (form_H - form_A) * WEIGHT_FORM
      offense_score_H == (home.goals_scored - away.goals_scored) * WEIGHT_OFFENSE
      defense_score_H == (away.goals_against - home.goals_against) * WEIGHT_DEFENSE
  IN [rank_score_H |-> rank_score_H, form_score_H |-> form_score_H,
      offense_score_H |-> offense_score_H, defense_score_H |-> defense_score_H,
      home_advantage_score |-> HOME_ADVANTAGE, manual_adjustment |-> manual_adjustment,
      home_win_score |-> rank_score_H + form_score_H + offense_score_H + defense_score_H
                           + HOME_ADVANTAGE + manual_adjustment]

\* What the function returns: the label, the team it names and the colour.
Returned(label, team, color) == [label |-> label, team |-> team, color |-> color]

NoTeam == Str(<<>>)

\* The three-way test on home_win_score.  The program adds doubles: a sum
\* whose decimal value is exactly +1.50 or -1.50 comes out as that double or
\* a rounding step beyond it (0.8 + 0.4 - 0.8 + 1.1 is 1.5000000000000002,
\* 0.4 + 1.1 is 1.5), so on the threshold itself either side of the test can
\* be taken; everywhere else the sum is at least 0.1 away from it.
judge(home_win_score, home_team, away_team) ==
  (IF home_win_score >= DRAW_THRESHOLD
   THEN {Returned("home_win", home_team, "#ff4b4b")} ELSE {})
  \cup
  (IF home_win_score <= 0 - DRAW_THRESHOLD
   THEN {Returned("away_win", away_team, "#4b87ff")} ELSE {})
  \cup
  (IF home_win_score <= DRAW_THRESHOLD /\ home_win_score >= 0 - DRAW_THRESHOLD
   THEN {Returned("draw", NoTeam, "#ffd700")} ELSE {})

\* The calls the function can make of calculate_recent_form for the two teams.
recent_forms(ledger, home_team, away_team, league) ==
  calculate_recent_form(ledger, home_team, league)
    \X calculate_recent_form(ledger, away_team, league)

\* The function without its check for empty tables.
predict_match_outcome_NoEmptyCheck(home_team, away_team, league, ranking_df, ledger, manual_adjustment) ==
  IF \/ home_team \notin ranking_teams(ranking_df_league(ranking_df, league))
     \/ away_team \notin ranking_teams(ranking_df_league(ranking_df, league))
  THEN {[result |-> Returned("no_info", NoTeam, "#ccc"), debug |-> <<>>]}
  ELSE UNION {
         LET debug == score_breakdown(home_team, away_team, league, ranking_df,
                                      forms[1], forms[2], manual_adjustment)
         IN {[result |-> r, debug |-> <<debug>>] :
               r \in judge(debug.home_win_score, home_team, away_team)}
         : forms \in recent_forms(ledger, home_team, away_team, league)}

\* The (return value, debug record) pairs a call can give; the debug record
\* is <<>> when the function returns before the score is computed, and
\* st.session_state.last_prediction_debug is then left as it was.
predict_match_outcome(home_team, away_team, league, ranking_df, ledger, manual_adjustment) ==
  IF ranking_df = <<>> \/ ledger = <<>>
  THEN {[result |-> Returned("no_data", NoTeam, "#ccc"), debug |-> <<>>]}
  ELSE IF \/ home_team \notin ranking_teams(ranking_df_league(ranking_df, league))
          \/ away_team \notin ranking_teams(ranking_df_league(ranking_df, league))
  THEN {[result |-> Returned("no_info", NoTeam, "#ccc"), debug |-> <<>>]}
  ELSE UNION {
         LET debug == score_breakdown(home_team, away_team, league, ranking_df,
                                      forms[1], forms[2], manual_adjustment)
         IN {[result |-> r, debug |-> <<debug>>] :
               r \in judge(debug.home_win_score, home_team, away_team)}
         : forms \in recent_forms(ledger, home_team, away_team, league)}
----------------------------------------------------------------------------
\* RankingDataProcessor (ranking_data_processor.py)

\* A Python dict: its keys are the domain of v.
Dict(f) == [type |-> "dict", v |-> f]

EmptyDict == Dict(<<>>)

\* d[key] = value
SetItem(d, key, value) ==
  Dict([k \in DOMAIN d.v \cup {key} |-> IF k = key THEN value ELSE d.v[k]])

\* bool(x) of a dict or None
truthy(x) == x.type = "dict" /\ DOMAIN x.v # {}

J3_COMPETITION_IDS == [year \in {2022, 2023, 2024, 2025} |->
                         IF year >= 2024 THEN 657 ELSE IF year = 2023 THEN 650 ELSE 644]

_get_j3_competition_id(year) ==
  IF year \in DOMAIN J3_COMPETITION_IDS THEN J3_COMPETITION_IDS[year] ELSE 0

\* {'rank': ..., 'total_goal_diff': ..., 'points': ...}
TeamData(rank, total_goal_diff, points) ==
  Dict([rank |-> rank, total_goal_diff |-> total_goal_diff, points |-> points])

\* The value used when there are no standings for a team.
DefaultData == TeamData(21, 0, 0)

\* What a call gives back: a value, or an exception that leaves the call.
Return(value) == [raised |-> FALSE, value |-> value]

Raise(exception) == [raised |-> TRUE, value |-> Str(exception)]

\* A cell of the standings page: a text int() reads as n, or one it rejects.
IntCell(n) == [parses |-> TRUE, n |-> n]

BadCell == [parses |-> FALSE, n |-> 0]

\* A <tr> of the page: the number of its <td>, and the cells the parser reads
\* (cols[0], cols[2], cols[3], cols[10]).
PageRow(ncols, rank, team_name, points, goal_diff) ==
  [ncols |-> ncols, rank |-> rank, team_name |-> team_name, points |-> points,
   goal_diff |-> goal_diff]

\* The least number of <td> of a row that is read.
MinCols == 11

\* The loop over the rows of <tbody>: a row with fewer than 11 cells or a cell
\* that is no number is skipped, a later row of a team replaces an earlier one.
RECURSIVE parse_rows(_, _)
parse_rows(rows, team_ranking_data) ==
  IF rows = <<>> THEN team_ranking_data
  ELSE LET row == rows[1]
           ok == /\ row.ncols >= MinCols
                 /\ row.rank.parses /\ row.points.parses /\ row.goal_diff.parses
       IN parse_rows(Tail(rows),
                     IF ok THEN SetItem(team_ranking_data, row.team_name,
                                        TeamData(row.rank.n, row.goal_diff.n, row.points.n))
                     ELSE team_ranking_data)

\* What the site gives for one request of a standings page: an HTTP error
\* status, no answer, a page without the table, a table without <tbody>, or
\* a table with rows.
_fetch_past_ranking_data(year, match_day, page) ==
  IF _get_j3_competition_id(year) = 0 THEN Return(None)
  ELSE CASE page.kind = "http_error" -> Return(None)
         [] page.kind = "connection_error" -> Return(None)
         [] page.kind = "no_table" -> Return(None)
         [] page.kind = "no_tbody" -> Raise(<<"A", "t", "t", "r", "i", "b", "u", "t", "e", "E", "r", "r", "o", "r">>)
         [] page.kind = "table" -> Return(parse_rows(page.rows, EmptyDict))

\* max(0, n)
max0(n) == IF n > 0 THEN n ELSE 0

\* One call of get_ranking_data_before_match on the cache: the cache after
\* it, the calls of _fetch_past_ranking_data it made, and what it gave back.
get_ranking_data_before_match(cache, year, match_day, team_name, page) ==
  LET previous_match_day == max0(match_day - 1)
      cache1 == IF year \in DOMAIN cache.v THEN cache ELSE SetItem(cache, year, EmptyDict)
      miss == previous_match_day \notin DOMAIN cache1.v[year].v
      data == _fetch_past_ranking_data(year, previous_match_day, page)
      Put(value) == SetItem(cache1, year, SetItem(cache1.v[year], previous_match_day, value))
  IN IF miss /\ previous_match_day # 0 /\ data.raised
     THEN [cache |-> cache1, fetched |-> <<<<year, previous_match_day>>>>,
           raised |-> TRUE, value |-> data.value]
     ELSE LET cache2 == IF ~miss THEN cache1
                        ELSE IF previous_match_day = 0 THEN Put(DefaultData)
                        ELSE IF data.value.type = "NoneType" THEN Put(EmptyDict)
                        ELSE Put(data.value)
              cached_rankings == cache2.v[year].v[previous_match_day]
          IN [cache |-> cache2,
              fetched |-> IF miss /\ previous_match_day # 0
                          THEN <<<<year, previous_match_day>>>> ELSE <<>>,
              raised |-> FALSE,
              value |-> IF previous_match_day = 0 THEN DefaultData
                        ELSE IF team_name \in DOMAIN cached_rankings.v
                        THEN cached_rankings.v[team_name]
                        ELSE DefaultData]

\* The home advantage 1.0 of the feature vector.
F4_HomeAdv == 1

\* calculate_features giving up when a team has no standings of its own.
calculate_features_SkipOnDefault(cache, year, match_day, home_team, away_team, recent_points_H, recent_points_A, page) ==
  LET home == get_ranking_data_before_match(cache, year, match_day, home_team, page)
      away == get_ranking_data_before_match(home.cache, year, match_day, away_team, page)
  IN IF home.raised THEN home
     ELSE IF away.raised
     THEN [away EXCEPT !.fetched = home.fetched \o away.fetched]
     ELSE [cache |-> away.cache,
           fetched |-> home.fetched \o away.fetched,
           raised |-> FALSE,
           value |-> IF home.value = DefaultData \/ away.value = DefaultData THEN None
                     ELSE Dict([F1_RankDiff |-> away.value.v.rank - home.value.v.rank,
                                F2_FormDiff |-> recent_points_H - recent_points_A,
                                F3_GDDiff |-> home.value.v.total_goal_diff
                                                - away.value.v.total_goal_diff,
                                F4_HomeAdv |-> F4_HomeAdv])]

\* One call of calculate_features: the cache after it, the fetches made and
\* the dict (or None) returned.  The second lookup is served by the cache
\* entry the first one made.
calculate_features(cache, year, match_day, home_team, away_team, recent_points_H, recent_points_A, page) ==
  LET home == get_ranking_data_before_match(cache, year, match_day, home_team, page)
      away == get_ranking_data_before_match(home.cache, year, match_day, away_team, page)
  IN IF home.raised THEN home
     ELSE IF away.raised
     THEN [away EXCEPT !.fetched = home.fetched \o away.fetched]
     ELSE [cache |-> away.cache,
           fetched |-> home.fetched \o away.fetched,
           raised |-> FALSE,
           value |-> IF ~truthy(home.value) \/ ~truthy(away.value) THEN None
                     ELSE Dict([F1_RankDiff |-> away.value.v.rank - home.value.v.rank,
                                F2_FormDiff |-> recent_points_H - recent_points_A,
                                F3_GDDiff |-> home.value.v.total_goal_diff
                                                - away.value.v.total_goal_diff,
                                F4_HomeAdv |-> F4_HomeAdv])]
----------------------------------------------------------------------------
\* Names given to normalize_j_name

RECURSIVE ToFullwidth(_)
ToFullwidth(s) ==
  IF s = <<>> THEN <<>>
  ELSE LET c == s[1]
       IN <<IF \E i \in DOMAIN HalfwidthForms : HalfwidthForms[i] = c
            THEN FullwidthForms[CHOOSE i \in DOMAIN HalfwidthForms : HalfwidthForms[i] = c]
            ELSE c>> \o ToFullwidth(Tail(s))

TableNames ==
  DOMAIN LEAGUE_NAME_MAPPING \cup Range(LEAGUE_NAME_MAPPING)
    \cup DOMAIN TEAM_NAME_MAPPING \cup Range(TEAM_NAME_MAPPING)

UnmappedNames ==
  { <<>>,
    <<"u65B0", "u6F5F", "F", "C">>,                 \* 新潟FC
    <<"F", "u30FB", "C", "u6771", "u4EAC">>,        \* F・C東京
    <<"F", "u30FB", "C", "u5C90", "u961C">>,        \* F・C岐阜
    <<"u5929", "u7687", "u676F">>,                  \* 天皇杯
    <<"J", "4">> }

NameVariants(n) ==
  { n,
    <<" ">> \o n \o <<" ">>,
    <<"u3000">> \o n,
    n \o <<"u3000", "\t">>,
    ToFullwidth(n) }

NameVocab == UNION {NameVariants(n) : n \in TableNames \cup UnmappedNames}

----------------------------------------------------------------------------
\* Fixture tables the site can serve

SeasonYears == {2024}

J1_LABEL == Str(<<"u660E", "u6CBB", "u5B89", "u7530", "J", "1", "u30EA", "u30FC", "u30B0">>)  \* 明治安田J1リーグ

J2_LABEL == Str(<<"u660E", "u6CBB", "u5B89", "u7530", "uFF2A", "uFF12", "u30EA", "u30FC", "u30B0">>)  \* 明治安田Ｊ２リーグ

URAWA == Str(<<"u6D66", "u548C">>)           \* 浦和

F_TOKYO == Str(<<"uFF26", "u6771", "u4EAC">>)  \* Ｆ東京

KASHIMA == Str(<<"u9E7F", "u5CF6">>)         \* 鹿島

KAWASAKI == Str(<<"u5DDD", "u5D0E", "F">>)   \* 川崎F

IWAKI == Str(<<"u3044", "u308F", "u304D">>)  \* いわき

J1 == Str(<<"J", "1">>)

J2 == Str(<<"J", "2">>)

FixtureRow(league, date, home, score, away) ==
  [league |-> league, date |-> Str(date), home |-> home, score |-> score, away |-> away]

\* A season's fixture list: the site fills in the scores as matches are played.
SeasonFixtures ==
  << [league |-> J1_LABEL, home |-> F_TOKYO, away |-> URAWA,
      date |-> <<"2", "4", "/", "0", "3", "/", "0", "2", "(", "u571F", ")">>],   \* 24/03/02(土)
     [league |-> J2_LABEL, home |-> URAWA, away |-> KAWASAKI,
      date |-> <<"2", "4", "/", "0", "3", "/", "0", "9", "(", "u571F", ")">>],   \* 24/03/09(土)
     [league |-> J1_LABEL, home |-> URAWA, away |-> KASHIMA,
      date |-> <<"2", "4", "/", "0", "3", "/", "1", "6", "(", "u571F", ")">>],   \* 24/03/16(土)
     [league |-> J1_LABEL, home |-> KASHIMA, away |-> F_TOKYO,
      date |-> <<"2", "4", "/", "0", "3", "/", "2", "0", "(", "u6C34", "u30FB", "u795D", ")">>]  \* 24/03/20(水・祝)
  >>

SeasonScores ==
  { Str(<<"1", "-", "0">>), Str(<<"0", "-", "1">>), Str(<<"0", "-", "0">>),
    Str(<<"4", "9", "9", "-", "0">>), Str(<<"9", "9", "9", "-", "0">>), Str(<<"-">>) }

\* The first n fixtures, each with one of the scores.
RECURSIVE FilledFixtures(_, _, _)
FilledFixtures(fixtures, scores, n) ==
  IF n = 0 THEN {<<>>}
  ELSE {Append(t, FixtureRow(fixtures[n].league, fixtures[n].date, fixtures[n].home,
                             s, fixtures[n].away)) :
          t \in FilledFixtures(fixtures, scores, n - 1), s \in scores}

SeasonTables == FilledFixtures(SeasonFixtures, SeasonScores, MaxRows)

\* Rows of one fixture whose score and date cells vary in form.
GateScores ==
  { Str(<<"2", "-", "1">>),
    Str(<<"1", "u30FC", "1">>),            \* 1ー1
    Str(<<"-">>),
    Str(<<"2", " ", "-", " ", "1">>),
    Str(<<"T", "B", "D">>),
    NaN }

PlayedScores == {Str(<<"2", "-", "1">>), Str(<<"1", "u30FC", "1">>)}

GateDates ==
  { Str(<<"2", "4", "/", "0", "3", "/", "0", "2", "(", "u571F", ")">>),            \* 24/03/02(土)
    Str(<<"2", "0", "2", "4", "/", "0", "3", "/", "0", "9", " ", "1", "4", ":", "0", "0">>),  \* 2024/03/09 14:00
    Str(<<"0", "3", "/", "0", "2", "(", "u65E5", ")">>),                           \* 03/02(日)
    Str(<<"2", "3", "/", "1", "2", "/", "0", "3", "(", "u65E5", ")">>),            \* 23/12/03(日)
    Str(<<"2", "5", "/", "0", "2", "/", "2", "3", "(", "u65E5", "u30FB", "u795D", ")">>),  \* 25/02/23(日・祝)
    Str(<<"2", "4", "/", "0", "2", "/", "3", "0">>),                               \* 24/02/30
    Str(<<>>),
    NaN }

InSeasonDates ==
  { Str(<<"2", "4", "/", "0", "3", "/", "0", "2", "(", "u571F", ")">>),
    Str(<<"2", "0", "2", "4", "/", "0", "3", "/", "0", "9", " ", "1", "4", ":", "0", "0">>) }

GateRows ==
  {[league |-> J1_LABEL, date |-> d, home |-> URAWA, score |-> s, away |-> F_TOKYO] :
     <<d, s>> \in (InSeasonDates \X GateScores) \cup (GateDates \X PlayedScores)}

RECURSIVE TablesUpTo(_, _)
TablesUpTo(rows, n) ==
  IF n = 0 THEN {<<>>}
  ELSE LET shorter == TablesUpTo(rows, n - 1)
       IN shorter \cup {Append(t, r) : t \in {t \in shorter : Len(t) = n - 1}, r \in rows}

GateTables == TablesUpTo(GateRows, MaxGateRows)

FixtureTables == SeasonTables \cup GateTables

\* One club's league matches, listed out of date order, for the form sum.
FormFixtures ==
  << [league |-> J1_LABEL, home |-> URAWA, away |-> KASHIMA,
      date |-> <<"2", "4", "/", "0", "3", "/", "3", "0">>],
     [league |-> J1_LABEL, home |-> KASHIMA, away |-> URAWA,
      date |-> <<"2", "4", "/", "0", "3", "/", "0", "2">>],
     [league |-> J1_LABEL, home |-> URAWA, away |-> F_TOKYO,
      date |-> <<"2", "4", "/", "0", "4", "/", "1", "3">>],
     [league |-> J1_LABEL, home |-> URAWA, away |-> KASHIMA,
      date |-> <<"2", "4", "/", "0", "3", "/", "0", "9">>],
     [league |-> J1_LABEL, home |-> F_TOKYO, away |-> URAWA,
      date |-> <<"2", "4", "/", "0", "4", "/", "0", "6">>],
     [league |-> J1_LABEL, home |-> URAWA, away |-> KASHIMA,
      date |-> <<"2", "4", "/", "0", "3", "/", "1", "6">>],
     [league |-> J1_LABEL, home |-> KASHIMA, away |-> URAWA,
      date |-> <<"2", "4", "/", "0", "3", "/", "2", "3">>],
     [league |-> J1_LABEL, home |-> URAWA, away |-> F_TOKYO,
      date |-> <<"2", "4", "/", "0", "4", "/", "2", "0">>]
  >>

\* The same club's match in another competition, between the league matches.
OtherLeagueFixture ==
  FixtureRow(J2_LABEL, <<"2", "4", "/", "0", "4", "/", "1", "0">>, URAWA,
             Str(<<"1", "-", "0">>), KAWASAKI)

FormScores == {Str(<<"1", "-", "0">>), Str(<<"0", "-", "0">>), Str(<<"0", "-", "1">>)}

FormTables ==
  {<<OtherLeagueFixture>> \o t : t \in FilledFixtures(FormFixtures, FormScores, MaxFormRows)}

\* The (team, league) pairs calculate_recent_form is asked about.
FormTeams == {normalize_j_name(URAWA), normalize_j_name(KASHIMA), normalize_j_name(IWAKI)}

FormLeagues == {J1, J2}

\* How the site answers a request: with the page, with a client or server
\* error status, or not within the timeout.
OK == "200"

Replies == {OK, "404", "503", "timeout"}

RECURSIVE ReplySequences(_)
ReplySequences(n) ==
  IF n = 0 THEN {<<>>}
  ELSE {Append(q, r) : q \in ReplySequences(n - 1), r \in Replies}

\* Pages with no fixture row or one.
FetchTables == {<<>>} \cup {<<r>> : r \in GateRows}

----------------------------------------------------------------------------
\* The script

PipelineIdle ==
  /\ site_table = None
  /\ site_replies = <<>>
  /\ requests_sent = 0
  /\ current_year = 0
  /\ schedule_df = None
  /\ pointaggregate_df = <<>>

TimelineIdle ==
  /\ selected_league = None
  /\ all_match_dates = <<>>
  /\ checkpoint_pos = 0
  /\ latest_stats_upto_date = <<>>
  /\ rank_history_df = <<>>

FormIdle ==
  /\ form_query = <<>>
  /\ recent_form_points = 0

\* No RankingDataProcessor has been made.
ProcessorIdle ==
  /\ ranking_cache = <<>>
  /\ fetch_calls = <<>>
  /\ last_call = <<>>

\* The script starts: the site is up, and its page has a fixture table or none.
Init ==
  /\ pc = "start"
  /\ site_table \in {DataFrame(t) : t \in FixtureTables} \cup {None}
  /\ site_replies = <<OK>>
  /\ requests_sent = 0
  /\ current_year \in SeasonYears
  /\ schedule_df = None
  /\ pointaggregate_df = <<>>
  /\ TimelineIdle
  /\ FormIdle
  /\ name_trace = <<>>
  /\ combined_ranking_df = <<>>
  /\ last_prediction = <<>>
  /\ ProcessorIdle

\* The sidebar block: the schedule is scraped, with one request to the site,
\* and the ledger built from it.
LoadData ==
  /\ pc = "start"
  /\ requests_sent' = requests_sent + 1
  /\ schedule_df' =
       scrape_schedule_data(requests_get(site_replies[requests_sent'], site_table))
  /\ pointaggregate_df' \in create_point_aggregate_df(schedule_df', current_year)
  /\ pc' = "loaded"
  /\ UNCHANGED <<site_table, site_replies, current_year, selected_league, all_match_dates,
                 checkpoint_pos, latest_stats_upto_date, rank_history_df, form_query,
                 recent_form_points, name_trace, combined_ranking_df,
                 last_prediction, ranking_cache, fetch_calls, last_call>>

\* The viewer's "順位変動グラフ" for a league: offered when the ledger is not
\* empty, and stopped before the loop when the league has no team to chart.
ViewRankTimeline(league) ==
  /\ pc = "loaded"
  /\ pointaggregate_df # <<>>
  /\ filtered_df_rank(pointaggregate_df, league) # <<>>
  /\ selected_league' = league
  /\ all_match_dates' = match_dates(filtered_df_rank(pointaggregate_df, league))
  /\ checkpoint_pos' = 0
  /\ latest_stats_upto_date' = <<>>
  /\ rank_history_df' =
       [k \in 1..Len(all_match_dates') |->
          [t \in teams_of(filtered_df_rank(pointaggregate_df, league)) |-> NoRank]]
  /\ pc' = "timeline"
  /\ UNCHANGED <<site_table, site_replies, requests_sent, current_year, schedule_df,
                 pointaggregate_df, form_query, recent_form_points, name_trace, combined_ranking_df,
                 last_prediction, ranking_cache, fetch_calls, last_call>>

\* One pass of the loop over all_match_dates.
RankCheckpoint ==
  /\ pc = "timeline"
  /\ checkpoint_pos < Len(all_match_dates)
  /\ checkpoint_pos' = checkpoint_pos + 1
  /\ latest_stats_upto_date' =
       stats_at(filtered_df_rank(pointaggregate_df, selected_league),
                all_match_dates[checkpoint_pos'])
  /\ rank_history_df' =
       [rank_history_df EXCEPT ![checkpoint_pos'] =
          [t \in DOMAIN @ |->
             IF t \in DOMAIN latest_stats_upto_date'
             THEN <<latest_stats_upto_date'[t].Rank>> ELSE @[t]]]
  /\ UNCHANGED <<pc, site_table, site_replies, requests_sent, current_year, schedule_df,
                 pointaggregate_df, selected_league, all_match_dates, form_query,
                 recent_form_points, name_trace, combined_ranking_df,
                 last_prediction, ranking_cache, fetch_calls, last_call>>

\* After the loop: rank_history_df.ffill(), and the chart is drawn.
ForwardFill ==
  /\ pc = "timeline"
  /\ checkpoint_pos = Len(all_match_dates)
  /\ rank_history_df' = ffill(rank_history_df)
  /\ pc' = "charted"
  /\ UNCHANGED <<site_table, site_replies, requests_sent, current_year, schedule_df,
                 pointaggregate_df, selected_league, all_match_dates, checkpoint_pos,
                 latest_stats_upto_date, form_query, recent_form_points, name_trace, combined_ranking_df,
                 last_prediction, ranking_cache, fetch_calls, last_call>>

Next ==
  \/ LoadData
  \/ \E league \in {J1, J2} : ViewRankTimeline(league)
  \/ RankCheckpoint
  \/ ForwardFill

Spec == Init /\ [][Next]_vars

\* calculate_recent_form on ledgers built from one club's run of matches.
\* Rows of one date in these ledgers are the two sides of one match, and the
\* form sum reads the rows of one team: the ledger is taken with those rows in
\* their order before the sort (Spec has every order).
InitForm ==
  /\ pc = "loaded"
  /\ site_table \in {DataFrame(t) : t \in FormTables}
  /\ site_replies = <<OK>>
  /\ requests_sent = 1
  /\ current_year \in SeasonYears
  /\ schedule_df = scrape_schedule_data(requests_get(site_replies[1], site_table))
  /\ pointaggregate_df = create_point_aggregate_df_stable(schedule_df, current_year)
  /\ TimelineIdle
  /\ FormIdle
  /\ name_trace = <<>>
  /\ combined_ranking_df = <<>>
  /\ last_prediction = <<>>
  /\ ProcessorIdle

RecentForm(team, league) ==
  /\ pc = "loaded"
  /\ form_query' = <<team, league>>
  /\ recent_form_points' \in calculate_recent_form(pointaggregate_df, team, league)
  /\ pc' = "form"
  /\ UNCHANGED <<site_table, site_replies, requests_sent, current_year, schedule_df,
                 pointaggregate_df, selected_league, all_match_dates, checkpoint_pos,
                 latest_stats_upto_date, rank_history_df, name_trace, combined_ranking_df,
                 last_prediction, ranking_cache, fetch_calls, last_call>>

NextForm == \E team \in FormTeams, league \in FormLeagues : RecentForm(team, league)

SpecForm == InitForm /\ [][NextForm]_vars

\* The script on tables with little or no data, with the form sum called on
\* whatever ledger comes out (the empty one included).
InitNoData ==
  /\ pc = "start"
  /\ site_table \in {DataFrame(t) : t \in GateTables} \cup {None}
  /\ site_replies = <<OK>>
  /\ requests_sent = 0
  /\ current_year \in SeasonYears
  /\ schedule_df = None
  /\ pointaggregate_df = <<>>
  /\ TimelineIdle
  /\ FormIdle
  /\ name_trace = <<>>
  /\ combined_ranking_df = <<>>
  /\ last_prediction = <<>>
  /\ ProcessorIdle

NextNoData ==
  \/ LoadData
  \/ \E league \in {J1, J2} : ViewRankTimeline(league)
  \/ RankCheckpoint
  \/ ForwardFill
  \/ \E team \in FormTeams, league \in FormLeagues : RecentForm(team, league)

SpecNoData == InitNoData /\ [][NextNoData]_vars

\* The load with a site that fails some requests
InitFetch ==
  /\ pc = "start"
  /\ site_table \in {DataFrame(t) : t \in FetchTables}
  /\ site_replies \in ReplySequences(MaxReplies)
  /\ requests_sent = 0
  /\ current_year \in SeasonYears
  /\ schedule_df = None
  /\ pointaggregate_df = <<>>
  /\ TimelineIdle
  /\ FormIdle
  /\ name_trace = <<>>
  /\ combined_ranking_df = <<>>
  /\ last_prediction = <<>>
  /\ ProcessorIdle

NextFetch == LoadData

SpecFetch == InitFetch /\ [][NextFetch]_vars

\* normalize_j_name on the names of the alias tables
InitNorm ==
  /\ pc = "normalize"
  /\ name_trace \in {<<Str(s)>> : s \in NameVocab} \cup {<<NaN>>, <<None>>}
  /\ PipelineIdle
  /\ TimelineIdle
  /\ FormIdle
  /\ combined_ranking_df = <<>>
  /\ last_prediction = <<>>
  /\ ProcessorIdle

\* One more call of normalize_j_name, on the previous result.
NormalizeName ==
  /\ pc = "normalize"
  /\ Len(name_trace) <= MaxApply
  /\ name_trace' = Append(name_trace, normalize_j_name(name_trace[Len(name_trace)]))
  /\ UNCHANGED <<pc, site_table, site_replies, requests_sent, current_year, schedule_df,
                 pointaggregate_df, selected_league, all_match_dates, checkpoint_pos,
                 latest_stats_upto_date, rank_history_df, form_query, recent_form_points,
                 combined_ranking_df,
                 last_prediction, ranking_cache, fetch_calls, last_call>>

NextNorm == NormalizeName

SpecNorm == InitNorm /\ [][NextNorm]_vars


\* The prediction tab: a season with at most one match played, and standings
\* of the two clubs in the order of their rank.  The two ledger rows of the
\* match are of different teams, and the form sums read one team's rows: the
\* ledger is taken with the rows in their order before the sort.
PredictTables ==
  {<<>>} \cup {<<FixtureRow(J1_LABEL, <<"2", "4", "/", "0", "3", "/", "0", "2", "(", "u571F", ")">>,
                            URAWA, score, F_TOKYO)>> : score \in PlayedScores}   \* 24/03/02(土)

PredictTeams == {normalize_j_name(URAWA), normalize_j_name(F_TOKYO)}

RankingTables ==
  {[k \in 1..2 |-> RankingRow(J1, order[k], k, scored[k], against[k])] :
     order \in {o \in [1..2 -> PredictTeams] : o[1] # o[2]},
     scored \in [1..2 -> 0..MaxGoals],
     against \in [1..2 -> 0..MaxGoals]}

InitPredict ==
  /\ pc = "loaded"
  /\ site_table \in {DataFrame(t) : t \in PredictTables}
  /\ site_replies = <<OK>>
  /\ requests_sent = 1
  /\ current_year \in SeasonYears
  /\ schedule_df = scrape_schedule_data(requests_get(site_replies[1], site_table))
  /\ pointaggregate_df = create_point_aggregate_df_stable(schedule_df, current_year)
  /\ TimelineIdle
  /\ FormIdle
  /\ name_trace = <<>>
  /\ combined_ranking_df \in RankingTables
  /\ last_prediction = <<>>
  /\ ProcessorIdle

\* The button '試合結果を予測する': the league and the two teams are chosen
\* from the standings, the teams differ, and the adjustment is the slider's.
Predict(league, home_team, away_team, manual_adjustment) ==
  /\ pc \in {"loaded", "predicted"}
  /\ home_team \in ranking_teams(ranking_df_league(combined_ranking_df, league))
  /\ away_team \in ranking_teams(ranking_df_league(combined_ranking_df, league))
  /\ home_team # away_team
  /\ \E returned \in predict_match_outcome(home_team, away_team, league, combined_ranking_df,
                                           pointaggregate_df, manual_adjustment) :
       last_prediction' =
         [home_team |-> home_team, away_team |-> away_team, league |-> league,
          manual_adjustment |-> manual_adjustment,
          result |-> returned.result,
          debug |-> IF returned.debug # <<>> \/ last_prediction = <<>>
                    THEN returned.debug ELSE last_prediction.debug]
  /\ pc' = "predicted"
  /\ UNCHANGED <<site_table, site_replies, requests_sent, current_year, schedule_df,
                 pointaggregate_df, selected_league, all_match_dates, checkpoint_pos,
                 latest_stats_upto_date, rank_history_df, form_query, recent_form_points,
                 name_trace, combined_ranking_df, ranking_cache, fetch_calls,
                 last_call>>

NextPredict ==
  \E league \in {combined_ranking_df[k].league : k \in DOMAIN combined_ranking_df},
     home_team \in PredictTeams, away_team \in PredictTeams,
     manual_adjustment \in SliderValues :
    Predict(league, home_team, away_team, manual_adjustment)

SpecPredict == InitPredict /\ [][NextPredict]_vars

\* predict_match_outcome called on any league and teams, on standings and
\* ledgers that may be empty.
CallTeams == PredictTeams \cup {normalize_j_name(KASHIMA)}

CallLeagues == {J1, J2}

CallAdjustments == {SliderMin, 0, SliderMax}

CallRankingTables ==
  {<<>>} \cup {t \in RankingTables :
                 \A k \in DOMAIN t : t[k].goals_scored = MaxGoals /\ t[k].goals_against = 0}

InitCall ==
  /\ pc = "loaded"
  /\ site_table \in {DataFrame(t) : t \in PredictTables}
  /\ site_replies = <<OK>>
  /\ requests_sent = 1
  /\ current_year \in SeasonYears
  /\ schedule_df = scrape_schedule_data(requests_get(site_replies[1], site_table))
  /\ pointaggregate_df = create_point_aggregate_df_stable(schedule_df, current_year)
  /\ TimelineIdle
  /\ FormIdle
  /\ name_trace = <<>>
  /\ combined_ranking_df \in CallRankingTables
  /\ last_prediction = <<>>
  /\ ProcessorIdle

\* One call of the function; last_prediction_debug keeps its value when the
\* call returns before writing it.
CallPredict(league, home_team, away_team, manual_adjustment) ==
  /\ pc \in {"loaded", "predicted"}
  /\ \E returned \in predict_match_outcome(home_team, away_team, league, combined_ranking_df,
                                           pointaggregate_df, manual_adjustment) :
       last_prediction' =
         [home_team |-> home_team, away_team |-> away_team, league |-> league,
          manual_adjustment |-> manual_adjustment,
          result |-> returned.result,
          debug |-> IF returned.debug # <<>> \/ last_prediction = <<>>
                    THEN returned.debug ELSE last_prediction.debug]
  /\ pc' = "predicted"
  /\ UNCHANGED <<site_table, site_replies, requests_sent, current_year, schedule_df,
                 pointaggregate_df, selected_league, all_match_dates, checkpoint_pos,
                 latest_stats_upto_date, rank_history_df, form_query, recent_form_points,
                 name_trace, combined_ranking_df, ranking_cache, fetch_calls,
                 last_call>>

NextCall ==
  \E league \in CallLeagues, home_team \in CallTeams, away_team \in CallTeams,
     manual_adjustment \in CallAdjustments :
    CallPredict(league, home_team, away_team, manual_adjustment)

SpecCall == InitCall /\ [][NextCall]_vars

\* The processor of the training data: seasons with and without a
\* competition id, the first rounds of a season and two clubs of the league,
\* one of them in every standings page and one in some.
HACHINOHE == Str(<<"u516B", "u6238">>)   \* 八戸

RYUKYU == Str(<<"u7409", "u7403">>)      \* 琉球

ProcessorTeams == {HACHINOHE, RYUKYU}

ProcessorYears == {2024, 2021}

MatchDays == 0..MaxMatchDay

RecentPoints == {<<8, 5>>}

Page(kind, rows) == [kind |-> kind, rows |-> rows]

StandingsRows ==
  { <<PageRow(11, IntCell(1), HACHINOHE, IntCell(3), IntCell(2)),
      PageRow(11, IntCell(2), RYUKYU, IntCell(0), IntCell(0 - 2))>>,
    <<PageRow(11, IntCell(1), HACHINOHE, IntCell(3), IntCell(2)),
      PageRow(10, IntCell(2), RYUKYU, IntCell(0), IntCell(0 - 2))>>,
    <<PageRow(11, IntCell(1), HACHINOHE, IntCell(3), IntCell(2)),
      PageRow(11, IntCell(2), RYUKYU, BadCell, IntCell(0 - 2))>>,
    <<>> }

Pages ==
  {Page(kind, <<>>) : kind \in {"http_error", "connection_error", "no_table", "no_tbody"}}
    \cup {Page("table", rows) : rows \in StandingsRows}

\* After RankingDataProcessor(...): the cache is empty.
InitProcessor ==
  /\ pc = "processor"
  /\ PipelineIdle
  /\ TimelineIdle
  /\ FormIdle
  /\ name_trace = <<>>
  /\ combined_ranking_df = <<>>
  /\ last_prediction = <<>>
  /\ ranking_cache = EmptyDict
  /\ fetch_calls = <<>>
  /\ last_call = <<>>

\* No request was sent to the site.
NoRequest == Page("none", <<>>)

\* What the processor's variables become with a call's outcome.
Called(method, year, match_day, teams, recent_points, page, outcome) ==
  /\ ranking_cache' = outcome.cache
  /\ fetch_calls' = fetch_calls \o outcome.fetched
  /\ last_call' = [method |-> method, year |-> year, match_day |-> match_day,
                   teams |-> teams, recent_points |-> recent_points,
                   page |-> page,
                   fetched |-> outcome.fetched,
                   raised |-> outcome.raised, value |-> outcome.value]
  /\ UNCHANGED <<pc, site_table, site_replies, requests_sent, current_year, schedule_df,
                 pointaggregate_df, selected_league, all_match_dates, checkpoint_pos,
                 latest_stats_upto_date, rank_history_df, form_query, recent_form_points,
                 name_trace, combined_ranking_df, last_prediction>>

\* A call of get_ranking_data_before_match; page is what the site sends if it
\* is asked.
GetRankingData(year, match_day, team_name, page) ==
  /\ pc = "processor"
  /\ Len(fetch_calls) < MaxFetches
  /\ Called("get_ranking_data_before_match", year, match_day, <<team_name>>, <<>>, page,
            get_ranking_data_before_match(ranking_cache, year, match_day, team_name, page))

\* A call of calculate_features, as the loop of generate_training_data makes
\* for each match; the loop goes on after a call that raised.
CalculateFeatures(year, match_day, home_team, away_team, recent_points, page) ==
  /\ pc = "processor"
  /\ Len(fetch_calls) < MaxFetches
  /\ Called("calculate_features", year, match_day, <<home_team, away_team>>, recent_points, page,
            calculate_features(ranking_cache, year, match_day, home_team, away_team,
                               recent_points[1], recent_points[2], page))

\* The pages the site can send to a call: it is asked only when the cache
\* has no entry for the year and the match day before (lines 111-116).
PagesFor(year, match_day) ==
  IF /\ max0(match_day - 1) # 0
     /\ \/ year \notin DOMAIN ranking_cache.v
        \/ max0(match_day - 1) \notin DOMAIN ranking_cache.v[year].v
  THEN Pages ELSE {NoRequest}

NextProcessor ==
  \E year \in ProcessorYears, match_day \in MatchDays :
    \E page \in PagesFor(year, match_day) :
      \/ \E team_name \in ProcessorTeams : GetRankingData(year, match_day, team_name, page)
      \/ \E home_team \in ProcessorTeams, recent_points \in RecentPoints :
           \E away_team \in ProcessorTeams \ {home_team} :
             CalculateFeatures(year, match_day, home_team, away_team, recent_points, page)

SpecProcessor == InitProcessor /\ [][NextProcessor]_vars
----------------------------------------------------------------------------
\* C1: every fixture row that passes the score filter and the date filter has
\* exactly two ledger entries, one for the home side and one for the away
\* side, with goals-for and goals-against exchanged between them and points
\* that add up to 3 when the scores differ and to 2 when they are equal; the
\* ledger has twice as many entries as there are such rows.
C1_LedgerSymmetry ==
  pc = "loaded" =>
    LET df == IF schedule_df = None THEN <<>> ELSE schedule_df.v
        kept == Range(finished_rows(df, current_year))
        ledger == pointaggregate_df
        Of(i) == {k \in DOMAIN ledger : ledger[k].row = i}
    IN /\ Len(ledger) = 2 * Cardinality(kept)
       /\ \A k \in DOMAIN ledger : ledger[k].row \in kept
       /\ \A i \in kept :
            \E h \in Of(i), a \in Of(i) :
              /\ h # a
              /\ Of(i) = {h, a}
              /\ ledger[h].team = df[i].home /\ ledger[h].opponent = df[i].away
              /\ ledger[a].team = df[i].away /\ ledger[a].opponent = df[i].home
              /\ ledger[h].goals_for = ledger[a].goals_against
              /\ ledger[h].goals_against = ledger[a].goals_for
              /\ ledger[h].points + ledger[a].points =
                   (IF ledger[h].goals_for # ledger[h].goals_against THEN 3 ELSE 2)

\* A ledger built from a decisive match and a drawn one.
C1_Witness ==
  /\ pc = "loaded"
  /\ Len(pointaggregate_df) = 4
  /\ \E k \in DOMAIN pointaggregate_df :
       pointaggregate_df[k].points = 3 /\ pointaggregate_df[k].goals_for = 1
  /\ \E k \in DOMAIN pointaggregate_df :
       pointaggregate_df[k].points = 1 /\ pointaggregate_df[k].goals_for = 0

----------------------------------------------------------------------------
\* C2: a finished fixture row dated "03/02(日)" (month and day only) with score
\* "2-1" in season 2024 is kept, its date is 2024-03-02, and the ledger has
\* exactly two entries for it: the home side with a win, 3 points and goal
\* difference +1, the away side with a loss, 0 points and goal difference -1.
C2_BareDateAccepted ==
  ( /\ pc = "loaded"
    /\ current_year = 2024
    /\ site_table = DataFrame(<<[league |-> J1_LABEL,
                                 date |-> Str(<<"0", "3", "/", "0", "2", "(", "u65E5", ")">>),
                                 home |-> URAWA,
                                 score |-> Str(<<"2", "-", "1">>),
                                 away |-> F_TOKYO]>>) )
  => /\ Len(pointaggregate_df) = 2
     /\ \E h \in DOMAIN pointaggregate_df, a \in DOMAIN pointaggregate_df :
          /\ pointaggregate_df[h].team = normalize_j_name(URAWA)
          /\ pointaggregate_df[h].date = [year |-> 2024, month |-> 3, day |-> 2]
          /\ pointaggregate_df[h].result = WIN
          /\ pointaggregate_df[h].points = 3
          /\ pointaggregate_df[h].goal_diff = 1
          /\ pointaggregate_df[a].team = normalize_j_name(F_TOKYO)
          /\ pointaggregate_df[a].date = [year |-> 2024, month |-> 3, day |-> 2]
          /\ pointaggregate_df[a].result = LOSS
          /\ pointaggregate_df[a].points = 0
          /\ pointaggregate_df[a].goal_diff = -1

----------------------------------------------------------------------------
\* C3: at every checkpoint of the rank timeline, the cumulative points, goal
\* difference and goals-for a team is ranked with are those of the team's
\* latest ledger entry of the league dated no later than the checkpoint (for
\* ledgers where no team has two entries of one date, so that the latest entry
\* is a single one).
C3_SnapshotIsLatestEntry ==
  ( /\ pc = "timeline"
    /\ checkpoint_pos >= 1
    /\ \A j \in DOMAIN pointaggregate_df, k \in DOMAIN pointaggregate_df :
         (j # k /\ pointaggregate_df[j].team = pointaggregate_df[k].team)
           => pointaggregate_df[j].date # pointaggregate_df[k].date )
  => \A t \in DOMAIN latest_stats_upto_date :
       LET rows == filtered_df_rank(pointaggregate_df, selected_league)
           upto == {k \in DOMAIN rows :
                      /\ rows[k].team = t
                      /\ DateKey(rows[k].date) <= DateKey(all_match_dates[checkpoint_pos])}
           latest == rows[MaxOf(upto)]
       IN /\ latest_stats_upto_date[t].cum_points = latest.cum_points
          /\ latest_stats_upto_date[t].cum_goal_diff = latest.cum_goal_diff
          /\ latest_stats_upto_date[t].cum_goals_for = latest.cum_goals_for

----------------------------------------------------------------------------
\* C4: at each checkpoint a team's rank is 1 plus the number of ranked teams
\* with a strictly greater Weighted_Score, and that rank is what the history
\* records; scores for 10, 10 and 8 points with equal goal difference and
\* goals-for get the ranks 1, 1 and 3.
C4_RankMin ==
  /\ (pc = "timeline" /\ checkpoint_pos >= 1) =>
       \A t \in DOMAIN latest_stats_upto_date :
         LET above == {u \in DOMAIN latest_stats_upto_date :
                         WholeLess(latest_stats_upto_date[t].Weighted_Score,
                                   latest_stats_upto_date[u].Weighted_Score)}
         IN /\ latest_stats_upto_date[t].Rank = 1 + Cardinality(above)
            /\ rank_history_df[checkpoint_pos][t] = <<1 + Cardinality(above)>>
  /\ LET score == [t \in {"a", "b", "c"} |->
                     Weighted_Score([cum_points |-> IF t = "c" THEN 8 ELSE 10,
                                     cum_goal_diff |-> 2, cum_goals_for |-> 7])]
     IN rank_min_descending(score) = [t \in {"a", "b", "c"} |-> IF t = "c" THEN 3 ELSE 1]

\* A checkpoint where two teams share rank 1 and the third team has rank 3.
C4_Witness ==
  /\ pc = "timeline"
  /\ checkpoint_pos >= 1
  /\ \E t \in DOMAIN latest_stats_upto_date, u \in DOMAIN latest_stats_upto_date,
        w \in DOMAIN latest_stats_upto_date :
       /\ t # u
       /\ latest_stats_upto_date[t].Rank = 1
       /\ latest_stats_upto_date[u].Rank = 1
       /\ latest_stats_upto_date[w].Rank = 3
       /\ rank_history_df[checkpoint_pos][w] = <<3>>

----------------------------------------------------------------------------
\* C5 as stated: for two teams ranked at one checkpoint whose cumulative goal
\* difference is between -1000 and 1000 and whose cumulative goals-for is
\* under 1000, Weighted_Score orders them as (points, goal difference,
\* goals-for) does, and the team with more points has no worse rank.
C5_OrderUnder1000 ==
  (pc = "timeline" /\ checkpoint_pos >= 1) =>
    \A t \in DOMAIN latest_stats_upto_date, u \in DOMAIN latest_stats_upto_date :
      LET a == latest_stats_upto_date[t]
          b == latest_stats_upto_date[u]
          LexLess == \/ a.cum_points < b.cum_points
                     \/ a.cum_points = b.cum_points /\ a.cum_goal_diff < b.cum_goal_diff
                     \/ /\ a.cum_points = b.cum_points
                        /\ a.cum_goal_diff = b.cum_goal_diff
                        /\ a.cum_goals_for < b.cum_goals_for
      IN ( /\ a.cum_goal_diff > -1000 /\ a.cum_goal_diff < 1000 /\ a.cum_goals_for < 1000
           /\ b.cum_goal_diff > -1000 /\ b.cum_goal_diff < 1000 /\ b.cum_goals_for < 1000 )
         => /\ WholeLess(a.Weighted_Score, b.Weighted_Score) <=> LexLess
            /\ a.cum_points < b.cum_points => b.Rank <= a.Rank

\* C5: the same with the cumulative goal difference between -500 and 500.
C5_OrderUnder500 ==
  (pc = "timeline" /\ checkpoint_pos >= 1) =>
    \A t \in DOMAIN latest_stats_upto_date, u \in DOMAIN latest_stats_upto_date :
      LET a == latest_stats_upto_date[t]
          b == latest_stats_upto_date[u]
          LexLess == \/ a.cum_points < b.cum_points
                     \/ a.cum_points = b.cum_points /\ a.cum_goal_diff < b.cum_goal_diff
                     \/ /\ a.cum_points = b.cum_points
                        /\ a.cum_goal_diff = b.cum_goal_diff
                        /\ a.cum_goals_for < b.cum_goals_for
      IN ( /\ a.cum_goal_diff > -500 /\ a.cum_goal_diff < 500 /\ a.cum_goals_for < 1000
           /\ b.cum_goal_diff > -500 /\ b.cum_goal_diff < 500 /\ b.cum_goals_for < 1000 )
         => /\ WholeLess(a.Weighted_Score, b.Weighted_Score) <=> LexLess
            /\ a.cum_points < b.cum_points => b.Rank <= a.Rank

\* A checkpoint where the team with more points has a goal difference more
\* than 900 below the other's, both within the bound.
C5_Witness ==
  /\ pc = "timeline"
  /\ checkpoint_pos >= 1
  /\ \E t \in DOMAIN latest_stats_upto_date, u \in DOMAIN latest_stats_upto_date :
       /\ latest_stats_upto_date[t].cum_points > latest_stats_upto_date[u].cum_points
       /\ latest_stats_upto_date[t].cum_goal_diff > -500
       /\ latest_stats_upto_date[u].cum_goal_diff < 500
       /\ latest_stats_upto_date[u].cum_goal_diff - latest_stats_upto_date[t].cum_goal_diff > 900
       /\ latest_stats_upto_date[u].cum_goals_for < 1000
       /\ latest_stats_upto_date[t].Rank < latest_stats_upto_date[u].Rank

----------------------------------------------------------------------------
\* C6: the ledger is in date order, and along one team's entries in that order
\* the cumulative points never decrease, each entry's cumulative points are
\* the previous entry's plus its own points, and the last entry's cumulative
\* points are the sum of the points of all the team's entries.
C6_CumulativePoints ==
  pc = "loaded" =>
  LET ledger == pointaggregate_df
      Earlier(k) == {j \in 1..(k - 1) : ledger[j].team = ledger[k].team}
      Mine(k) == LET SameTeam(e) == e.team = ledger[k].team IN SelectSeq(ledger, SameTeam)
  IN /\ \A k \in DOMAIN ledger, j \in DOMAIN ledger :
          j < k => DateKey(ledger[j].date) <= DateKey(ledger[k].date)
     /\ \A k \in DOMAIN ledger :
          /\ Earlier(k) = {} => ledger[k].cum_points = ledger[k].points
          /\ Earlier(k) # {} =>
               /\ ledger[k].cum_points = ledger[MaxOf(Earlier(k))].cum_points + ledger[k].points
               /\ ledger[k].cum_points >= ledger[MaxOf(Earlier(k))].cum_points
          /\ (\A j \in DOMAIN ledger : j > k => ledger[j].team # ledger[k].team)
               => ledger[k].cum_points = SumPoints(Mine(k))

\* A ledger where one team has three entries, with other teams' entries between
\* them, and earns points in more than one of them.
C6_Witness ==
  /\ pc = "loaded"
  /\ \E i \in DOMAIN pointaggregate_df, j \in DOMAIN pointaggregate_df,
        k \in DOMAIN pointaggregate_df :
       /\ i < j /\ j < k
       /\ pointaggregate_df[i].team = pointaggregate_df[k].team
       /\ pointaggregate_df[j].team = pointaggregate_df[k].team
       /\ pointaggregate_df[i].points = 3
       /\ pointaggregate_df[j].points = 1
       /\ pointaggregate_df[k].points = 0
       /\ pointaggregate_df[k].cum_points = 4
       /\ \E m \in DOMAIN pointaggregate_df :
            i < m /\ m < j /\ pointaggregate_df[m].points > 0

----------------------------------------------------------------------------
\* C7: a fixture row with a valid date has two ledger entries (one match
\* record) when its score, with the long dash replaced by "-" and trimmed, is
\* digits, "-", digits and nothing else, and no ledger entry otherwise; rows
\* with score "-", "2 - 1" or "TBD" have none, a row with score "2-1" has two.
C7_ScoreGate ==
  pc = "loaded" =>
    LET df == IF schedule_df = None THEN <<>> ELSE schedule_df.v
        Entries(i) == {k \in DOMAIN pointaggregate_df : pointaggregate_df[k].row = i}
        ValidDate(i) == parse_match_date(df[i].date, current_year) # NaT
        DigitsDashDigits(s) ==
          \E dash \in 2..(Len(s) - 1) :
            /\ s[dash] = "-"
            /\ \A p \in (1..Len(s)) \ {dash} : IsDigit(s[p])
    IN \A i \in DOMAIN df :
         /\ Cardinality(Entries(i)) =
              (IF ValidDate(i) /\ DigitsDashDigits(score_cleaned(df[i].score)) THEN 2 ELSE 0)
         /\ df[i].score \in {Str(<<"-">>), Str(<<"2", " ", "-", " ", "1">>), Str(<<"T", "B", "D">>)}
              => Entries(i) = {}
         /\ (ValidDate(i) /\ df[i].score = Str(<<"2", "-", "1">>))
              => Cardinality(Entries(i)) = 2

\* A table with a "2-1" row and a "2 - 1" row, both dated in the season, and a
\* ledger with only the first row's two entries.
C7_Witness ==
  /\ pc = "loaded"
  /\ schedule_df # None
  /\ Len(schedule_df.v) = 2
  /\ schedule_df.v[1].score = Str(<<"2", "-", "1">>)
  /\ schedule_df.v[2].score = Str(<<"2", " ", "-", " ", "1">>)
  /\ schedule_df.v[2].date = schedule_df.v[1].date
  /\ Len(pointaggregate_df) = 2
  /\ \A k \in DOMAIN pointaggregate_df : pointaggregate_df[k].row = 1

----------------------------------------------------------------------------
\* C8: no ledger entry has a match date in a year other than the season's; a
\* fixture row whose date has no date core, or whose parsed year is not the
\* season's, has no ledger entry.
C8_SeasonGate ==
  pc = "loaded" =>
    LET df == IF schedule_df = None THEN <<>> ELSE schedule_df.v
        Entries(i) == {k \in DOMAIN pointaggregate_df : pointaggregate_df[k].row = i}
        Core(i) == IF isinstance_str(df[i].date)
                   THEN re_search_date(re_sub_parens(df[i].date.v)) ELSE <<>>
    IN /\ \A k \in DOMAIN pointaggregate_df :
            pointaggregate_df[k].date.year = current_year
       /\ \A i \in DOMAIN df :
            /\ Core(i) = <<>> => Entries(i) = {}
            /\ (Core(i) # <<>> /\ to_datetime_ymd(Core(i)).year # current_year)
                 => Entries(i) = {}
            /\ df[i].date \in {Str(<<"2", "3", "/", "1", "2", "/", "0", "3", "(", "u65E5", ")">>),
                               Str(<<>>), NaN}
                 => Entries(i) = {}

\* A table with a finished match of the previous season and one of this
\* season, and a ledger with only the second one's entries.
C8_Witness ==
  /\ pc = "loaded"
  /\ schedule_df # None
  /\ Len(schedule_df.v) = 2
  /\ schedule_df.v[1].date = Str(<<"2", "3", "/", "1", "2", "/", "0", "3", "(", "u65E5", ")">>)
  /\ schedule_df.v[1].score = Str(<<"2", "-", "1">>)
  /\ schedule_df.v[2].score = Str(<<"2", "-", "1">>)
  /\ Len(pointaggregate_df) = 2
  /\ \A k \in DOMAIN pointaggregate_df :
       pointaggregate_df[k].row = 2 /\ pointaggregate_df[k].date.year = 2024

----------------------------------------------------------------------------
\* C9: calculate_recent_form returns the sum of the points of the 5 entries
\* of the (league, team) pair with the latest match dates, of all of them when
\* there are fewer than 5, and 0 when the pair has no entry; points
\* 3, 3, 0, 1, 3, 0, 1 in date order give 5.
C9_FormWindow ==
  pc = "form" =>
    LET ledger == pointaggregate_df
        mine == {k \in DOMAIN ledger :
                   ledger[k].team = form_query[1] /\ ledger[k].league = form_query[2]}
        window == IF Cardinality(mine) < 5 THEN Cardinality(mine) ELSE 5
        RECURSIVE Total(_)
        Total(S) == IF S = {} THEN 0
                    ELSE LET k == CHOOSE k \in S : TRUE
                         IN ledger[k].points + Total(S \ {k})
        ByDate == LET Mine(e) == e.team = form_query[1] /\ e.league = form_query[2]
                  IN SelectSeq(ledger, Mine)
    IN /\ \E S \in SUBSET mine :
            /\ Cardinality(S) = window
            /\ \A k \in S, j \in mine \ S : DateKey(ledger[j].date) <= DateKey(ledger[k].date)
            /\ recent_form_points = Total(S)
       /\ mine = {} => recent_form_points = 0
       /\ [k \in DOMAIN ByDate |-> ByDate[k].points] = <<3, 3, 0, 1, 3, 0, 1>>
            => recent_form_points = 5

\* The form of a team whose seven league results in date order are
\* 3, 3, 0, 1, 3, 0, 1 points, with a win in another league among them.
C9_Witness ==
  /\ pc = "form"
  /\ form_query = <<normalize_j_name(URAWA), J1>>
  /\ LET Mine(e) == e.team = form_query[1] /\ e.league = form_query[2]
         ByDate == SelectSeq(pointaggregate_df, Mine)
     IN [k \in DOMAIN ByDate |-> ByDate[k].points] = <<3, 3, 0, 1, 3, 0, 1>>
  /\ \E k \in DOMAIN pointaggregate_df :
       /\ pointaggregate_df[k].team = form_query[1]
       /\ pointaggregate_df[k].league = J2
       /\ pointaggregate_df[k].points = 3
  /\ recent_form_points = 5

----------------------------------------------------------------------------
\* C10: normalising an already normalised name changes nothing:
\* normalize_j_name(normalize_j_name(s)) = normalize_j_name(s) for every name s
\* of the vocabulary.
C10_Idempotent ==
  \A i \in 2..(Len(name_trace) - 1) : name_trace[i + 1] = name_trace[i]

\* An alias written with surrounding whitespace or in fullwidth form was
\* normalised twice, and the first call changed it.
C10_Witness ==
  /\ Len(name_trace) >= 3
  /\ name_trace[1] # name_trace[2]
  /\ name_trace[1].type = "str"
  /\ \/ name_trace[1].v[1] \in Whitespace
     \/ \E i \in DOMAIN name_trace[1].v : name_trace[1].v[i] \in Range(FullwidthForms)
  /\ name_trace[2].v \in Range(TEAM_NAME_MAPPING)

----------------------------------------------------------------------------
\* C11: each ledger entry's cumulative points, goal difference and goals-for
\* are the sums of points, goal difference and goals-for over the entries of
\* the same team at or before it in the ledger's order, whatever their league,
\* and over no other team's entries; the ledger's order is by date.
C11_PrefixSumsPerTeam ==
  pc = "loaded" =>
    LET ledger == pointaggregate_df
        Own(k) == {j \in 1..k : ledger[j].team = ledger[k].team}
        RECURSIVE Total(_, _)
        Total(S, col) == IF S = {} THEN 0
                         ELSE LET j == CHOOSE j \in S : TRUE
                              IN ledger[j][col] + Total(S \ {j}, col)
    IN /\ \A k \in DOMAIN ledger, j \in DOMAIN ledger :
            j < k => DateKey(ledger[j].date) <= DateKey(ledger[k].date)
       /\ \A k \in DOMAIN ledger :
            /\ ledger[k].cum_points = Total(Own(k), "points")
            /\ ledger[k].cum_goal_diff = Total(Own(k), "goal_diff")
            /\ ledger[k].cum_goals_for = Total(Own(k), "goals_for")

\* A team that wins in one league, then in another, then draws in the first:
\* its last entry counts all three, and another team has points by then.
C11_Witness ==
  /\ pc = "loaded"
  /\ \E i \in DOMAIN pointaggregate_df, j \in DOMAIN pointaggregate_df,
        k \in DOMAIN pointaggregate_df :
       /\ i < j /\ j < k
       /\ pointaggregate_df[i].team = pointaggregate_df[k].team
       /\ pointaggregate_df[j].team = pointaggregate_df[k].team
       /\ pointaggregate_df[i].league = pointaggregate_df[k].league
       /\ pointaggregate_df[j].league # pointaggregate_df[k].league
       /\ pointaggregate_df[i].points = 3
       /\ pointaggregate_df[j].points = 3
       /\ pointaggregate_df[k].points = 1
       /\ pointaggregate_df[k].cum_points = 7
       /\ pointaggregate_df[k].cum_goals_for = 2
       /\ \E m \in 1..(k - 1) :
            /\ pointaggregate_df[m].team # pointaggregate_df[k].team
            /\ pointaggregate_df[m].points > 0

----------------------------------------------------------------------------
\* C12: the ledger is empty when the fixture table is None, is empty, has no
\* row with a digits-dash-digits score, or has no row with a date of the
\* season; calculate_recent_form returns 0 on an empty ledger; and with an
\* empty ledger the rank timeline is never computed.
C12_NoDataDegrades ==
  LET df == IF schedule_df = None THEN <<>> ELSE schedule_df.v
      DigitsDashDigits(s) ==
        \E dash \in 2..(Len(s) - 1) :
          /\ s[dash] = "-"
          /\ \A p \in (1..Len(s)) \ {dash} : IsDigit(s[p])
      NoFinished == \A i \in DOMAIN df : ~DigitsDashDigits(score_cleaned(df[i].score))
      NoInSeason == \A i \in DOMAIN df : parse_match_date(df[i].date, current_year) = NaT
  IN /\ (pc # "start" /\ (site_table = None \/ df = <<>> \/ NoFinished \/ NoInSeason))
          => pointaggregate_df = <<>>
     /\ (pc = "form" /\ pointaggregate_df = <<>>) => recent_form_points = 0
     /\ (pc # "start" /\ pointaggregate_df = <<>>)
          => /\ pc \notin {"timeline", "charted"}
             /\ all_match_dates = <<>>
             /\ rank_history_df = <<>>

\* A table with a finished match of another season and an unplayed match of
\* this season: the ledger is empty and the form sum on it is 0.
C12_Witness ==
  /\ pc = "form"
  /\ schedule_df # None
  /\ Len(schedule_df.v) = 2
  /\ schedule_df.v[1].score = Str(<<"2", "-", "1">>)
  /\ schedule_df.v[1].date = Str(<<"2", "3", "/", "1", "2", "/", "0", "3", "(", "u65E5", ")">>)
  /\ schedule_df.v[2].score = Str(<<"T", "B", "D">>)
  /\ schedule_df.v[2].date = Str(<<"2", "4", "/", "0", "3", "/", "0", "2", "(", "u571F", ")">>)
  /\ pointaggregate_df = <<>>
  /\ recent_form_points = 0

----------------------------------------------------------------------------
\* C13: the rank timeline of a league has one checkpoint for each distinct
\* match date of the league's ledger entries and no other; at a checkpoint a
\* team with no entry of the league dated at or before it is not among the
\* ranked teams and has no rank in the history, before and after the forward
\* fill, and a team with such an entry has one.
C13_CheckpointsAndExclusion ==
  pc \in {"timeline", "charted"} =>
    LET rows == filtered_df_rank(pointaggregate_df, selected_league)
        Played(t, c) == \E k \in DOMAIN rows :
                          /\ rows[k].team = t
                          /\ DateKey(rows[k].date) <= DateKey(all_match_dates[c])
    IN /\ Range(all_match_dates) = {rows[k].date : k \in DOMAIN rows}
       /\ \A c \in DOMAIN all_match_dates, d \in DOMAIN all_match_dates :
            c < d => DateKey(all_match_dates[c]) < DateKey(all_match_dates[d])
       /\ DOMAIN rank_history_df = DOMAIN all_match_dates
       /\ \A c \in 1..checkpoint_pos :
            \A t \in teams_of(rows) : Played(t, c) <=> rank_history_df[c][t] # NoRank
       /\ (pc = "timeline" /\ checkpoint_pos >= 1) =>
            /\ DOMAIN latest_stats_upto_date = {t \in teams_of(rows) : Played(t, checkpoint_pos)}
            /\ \A t \in DOMAIN latest_stats_upto_date :
                 latest_stats_upto_date[t].Rank \in 1..Cardinality(DOMAIN latest_stats_upto_date)

\* A finished timeline of a league whose second checkpoint has three teams,
\* one of which played its first match after the first checkpoint and has no
\* rank there.
C13_Witness ==
  /\ pc = "charted"
  /\ Len(all_match_dates) = 2
  /\ \E t \in DOMAIN rank_history_df[1], u \in DOMAIN rank_history_df[1] :
       /\ rank_history_df[1][t] = NoRank
       /\ rank_history_df[2][t] # NoRank
       /\ rank_history_df[1][u] = <<2>>
       /\ rank_history_df[2][u] = <<3>>

----------------------------------------------------------------------------
\* C14: a name whose fold is a key of the league table is normalised to that
\* key's league code; the lookup of lines 155-158 gives the league code also
\* when the team table it is given has the same key.
C14_LeagueFirst ==
  /\ \A i \in 1..(Len(name_trace) - 1) :
       ( /\ isinstance_str(name_trace[i])
         /\ FoldName(name_trace[i].v) \in DOMAIN LEAGUE_NAME_MAPPING )
       => name_trace[i + 1] = Str(LEAGUE_NAME_MAPPING[FoldName(name_trace[i].v)])
  /\ \A k \in DOMAIN LEAGUE_NAME_MAPPING :
       LookupIn(k, LEAGUE_NAME_MAPPING, k :> <<"u6D66", "u548C", "u30EC", "u30C3", "u30BA">>)
         = LEAGUE_NAME_MAPPING[k]

\* A league label in fullwidth letters is normalised to the code J1.
C14_Witness ==
  /\ Len(name_trace) >= 2
  /\ name_trace[1] = Str(<<"u660E", "u6CBB", "u5B89", "u7530", "uFF2A", "uFF11",
                           "u30EA", "u30FC", "u30B0">>)
  /\ name_trace[2] = Str(<<"J", "1">>)

----------------------------------------------------------------------------
\* C15: normalize_j_name gives a value for every input; an input that is no
\* str comes back as it is, and a str whose fold is in neither table comes
\* back as its fold: its characters with fullwidth forms made halfwidth, and
\* no whitespace at either end.
C15_TotalAndPassThrough ==
  \A i \in 1..(Len(name_trace) - 1) :
    LET name == name_trace[i]
        result == name_trace[i + 1]
    IN /\ result.type \in {"str", "float", "NoneType"}
       /\ ~isinstance_str(name) => result = name
       /\ ( /\ isinstance_str(name)
            /\ FoldName(name.v) \notin DOMAIN LEAGUE_NAME_MAPPING
            /\ FoldName(name.v) \notin DOMAIN TEAM_NAME_MAPPING )
          => /\ result = Str(FoldName(name.v))
             /\ \A p \in DOMAIN result.v : result.v[p] \notin Range(FullwidthForms)
             /\ result.v # <<>> =>
                  /\ result.v[1] \notin Whitespace
                  /\ result.v[Len(result.v)] \notin Whitespace
             /\ \E a \in 1..(Len(name.v) + 1) :
                  /\ \A p \in 1..(a - 1) : NFKC_char(name.v[p]) \in Whitespace
                  /\ \A p \in (a + Len(result.v))..Len(name.v) :
                       NFKC_char(name.v[p]) \in Whitespace
                  /\ \A p \in DOMAIN result.v : result.v[p] = NFKC_char(name.v[a + p - 1])

\* A name of no table, in fullwidth letters or with whitespace around it,
\* comes back folded.
C15_Witness ==
  /\ Len(name_trace) >= 2
  /\ \/ /\ name_trace[1] = Str(<<"u65B0", "u6F5F", "uFF26", "uFF23">>)
        /\ name_trace[2] = Str(<<"u65B0", "u6F5F", "F", "C">>)
     \/ /\ name_trace[1] = Str(<<" ", "u5929", "u7687", "u676F", " ">>)
        /\ name_trace[2] = Str(<<"u5929", "u7687", "u676F">>)

----------------------------------------------------------------------------
\* C16: every value of TEAM_NAME_MAPPING is a key of it that maps to itself,
\* every value of LEAGUE_NAME_MAPPING is a key of it that maps to itself, and
\* no value of either table is a key, in either table, of another value; so a
\* canonical name is normalised to itself.
C16_TablesClosed ==
  /\ \A v \in Range(TEAM_NAME_MAPPING) :
       v \in DOMAIN TEAM_NAME_MAPPING /\ TEAM_NAME_MAPPING[v] = v
  /\ \A v \in Range(LEAGUE_NAME_MAPPING) :
       v \in DOMAIN LEAGUE_NAME_MAPPING /\ LEAGUE_NAME_MAPPING[v] = v
  /\ \A v \in Range(TEAM_NAME_MAPPING) \cup Range(LEAGUE_NAME_MAPPING) :
       /\ v \in DOMAIN TEAM_NAME_MAPPING => TEAM_NAME_MAPPING[v] = v
       /\ v \in DOMAIN LEAGUE_NAME_MAPPING => LEAGUE_NAME_MAPPING[v] = v
  /\ \A i \in 1..(Len(name_trace) - 1) :
       ( /\ isinstance_str(name_trace[i])
         /\ name_trace[i].v \in Range(TEAM_NAME_MAPPING) \cup Range(LEAGUE_NAME_MAPPING) )
       => name_trace[i + 1] = name_trace[i]

\* A canonical team name that the literal has only as a value is normalised
\* to itself.
C16_Witness ==
  /\ Len(name_trace) >= 2
  /\ isinstance_str(name_trace[1])
  /\ name_trace[1].v \in Range(TEAM_NAME_MAPPING)
  /\ name_trace[1].v \notin DOMAIN DictOf(TEAM_NAME_MAPPING_literal)
  /\ name_trace[2] = name_trace[1]

----------------------------------------------------------------------------
\* C17: a scrape sends a request again after a timeout or a 5xx reply, up to
\* 3 requests in all, and never after a 4xx reply; it returns the page of the
\* first request answered with 200 and returns no data when a 4xx reply
\* comes or the third request fails too.
C17_BoundedRetry ==
  pc = "loaded" =>
    LET Transient(k) == site_replies[k] \in {"503", "timeout"}
        last == IF ~Transient(1) THEN 1 ELSE IF ~Transient(2) THEN 2 ELSE 3
    IN /\ requests_sent = last
       /\ schedule_df = (IF site_replies[last] = OK
                         THEN scrape_schedule_data(site_table) ELSE None)

----------------------------------------------------------------------------
\* C18: when a team has two ledger entries of one date, the sort leaves them
\* in the order they had before it (home rows in table order, then away rows
\* in table order), and their cumulative values are those that order gives.
C18_StableDateSort ==
  pc = "loaded" =>
    LET ledger == pointaggregate_df
        stable == create_point_aggregate_df_stable(schedule_df, current_year)
        InputPos(e) == IF e.team = schedule_df.v[e.row].home
                       THEN e.row ELSE Len(schedule_df.v) + e.row
    IN \A j \in DOMAIN ledger, k \in DOMAIN ledger :
         ( /\ j < k
           /\ ledger[j].team = ledger[k].team
           /\ ledger[j].date = ledger[k].date )
         => /\ InputPos(ledger[j]) < InputPos(ledger[k])
            /\ ledger[j] \in Range(stable)
            /\ ledger[k] \in Range(stable)


----------------------------------------------------------------------------
\* C19: whenever predict_match_outcome computes a score, the match is
\* labelled a draw exactly when the score lies in [-0.75, +0.75], a home win
\* when the score is above +0.75 and an away win when it is below -0.75.
C19_DrawBand075 ==
  (pc = "predicted" /\ last_prediction.debug # <<>>
                    /\ last_prediction.debug[1].manual_adjustment
                         = last_prediction.manual_adjustment) =>
    LET score == last_prediction.debug[1].home_win_score
        label == last_prediction.result.label
    IN /\ (label = "draw") <=> (score >= 0 - 75 /\ score <= 75)
       /\ score > 75 => label = "home_win"
       /\ score < 0 - 75 => label = "away_win"

----------------------------------------------------------------------------
\* How far a label is on the home side.
HomeSide(label) == IF label = "away_win" THEN 0 ELSE IF label = "draw" THEN 1 ELSE 2

\* The labels the last prediction's inputs give with another adjustment: the
\* same teams, league, standings and ledger, and the same recent forms (those
\* whose difference is the form score of the call).
LabelsWith(manual_adjustment) ==
  LET p == last_prediction
  IN UNION {
       {r.label : r \in judge(score_breakdown(p.home_team, p.away_team, p.league,
                                              combined_ranking_df, forms[1], forms[2],
                                              manual_adjustment).home_win_score,
                              p.home_team, p.away_team)}
       : forms \in {f \in recent_forms(pointaggregate_df, p.home_team, p.away_team, p.league) :
                      (f[1] - f[2]) * WEIGHT_FORM = p.debug[1].form_score_H}}

\* The last call computed a score.
Scored ==
  /\ pc = "predicted"
  /\ last_prediction.result.label \in {"home_win", "draw", "away_win"}

\* C20: with the other inputs of a prediction fixed, a larger
\* manual_adjustment gives a label at least as far on the home side (home win
\* stays home win, draw becomes draw or home win), and a smaller one a label
\* at least as far on the away side.
C20_AdjustmentMonotone ==
  Scored =>
    \A other \in SliderValues : \A label \in LabelsWith(other) :
      /\ other > last_prediction.manual_adjustment
           => HomeSide(label) >= HomeSide(last_prediction.result.label)
      /\ other < last_prediction.manual_adjustment
           => HomeSide(label) <= HomeSide(last_prediction.result.label)

\* A prediction of a draw that a larger adjustment turns into a home win and
\* a smaller one into an away win.
C20_Witness ==
  /\ Scored
  /\ last_prediction.result.label = "draw"
  /\ \E up \in SliderValues :
       up > last_prediction.manual_adjustment /\ LabelsWith(up) = {"home_win"}
  /\ \E down \in SliderValues :
       down < last_prediction.manual_adjustment /\ LabelsWith(down) = {"away_win"}

----------------------------------------------------------------------------
\* last_prediction_debug before and after a step.
DebugBefore == IF last_prediction = <<>> THEN <<>> ELSE last_prediction.debug

\* C21: a call of predict_match_outcome with empty standings or an empty
\* ledger returns the label データ不足, and a call with a team that has no row
\* in the selected league's standings returns 情報不足; in both cases nothing
\* is raised and last_prediction_debug is left as it was.
C21_InsufficientData ==
  [][LET call == last_prediction'
         league_teams == {combined_ranking_df[k].team :
                            k \in {j \in DOMAIN combined_ranking_df :
                                     combined_ranking_df[j].league = call.league}}
         empty == combined_ranking_df = <<>> \/ pointaggregate_df = <<>>
         absent == call.home_team \notin league_teams \/ call.away_team \notin league_teams
     IN /\ empty => /\ call.result.label = "no_data"
                    /\ call.debug = DebugBefore
        /\ (~empty /\ absent) => /\ call.result.label = "no_info"
                                 /\ call.debug = DebugBefore
        /\ (~empty /\ ~absent) => call.result.label \in {"home_win", "draw", "away_win"}
    ]_vars

\* A call with a team absent from the standings, made after a call that
\* computed a score: the debug record is still that of the earlier call.
C21_Witness ==
  /\ pc = "predicted"
  /\ last_prediction.result.label = "no_info"
  /\ last_prediction.debug # <<>>
  /\ combined_ranking_df # <<>>
  /\ pointaggregate_df # <<>>

----------------------------------------------------------------------------
\* How often _fetch_past_ranking_data was called for a year and match day.
FetchCount(year, match_day) ==
  Cardinality({k \in DOMAIN fetch_calls : fetch_calls[k] = <<year, match_day>>})

\* C22: over the calls of the processor, _fetch_past_ranking_data is called
\* at most once for each (year, match_day - 1), failed fetches included, and
\* never for the match day 0 that stands for match_day <= 1.
C22_FetchOnce ==
  \A k \in DOMAIN fetch_calls :
    /\ FetchCount(fetch_calls[k][1], fetch_calls[k][2]) <= 1
    /\ fetch_calls[k][2] >= 1

----------------------------------------------------------------------------
\* The sum of a column over the entries of a ledger.
RECURSIVE ColumnSum(_, _)
ColumnSum(ledger, col) ==
  IF ledger = <<>> THEN 0 ELSE ledger[1][col] + ColumnSum(Tail(ledger), col)

\* C23: in every ledger built by create_point_aggregate_df the goal
\* differences of all entries add up to 0 and the goals-for add up to the
\* goals-against; in each entry the goal difference is goals-for minus
\* goals-against, and the points are 3 exactly when it is positive, 1
\* exactly when it is 0 and 0 exactly when it is negative.
C23_ZeroSum ==
  pc = "loaded" =>
    LET ledger == pointaggregate_df
    IN /\ ColumnSum(ledger, "goal_diff") = 0
       /\ ColumnSum(ledger, "goals_for") = ColumnSum(ledger, "goals_against")
       /\ \A k \in DOMAIN ledger :
            /\ ledger[k].goal_diff = ledger[k].goals_for - ledger[k].goals_against
            /\ ledger[k].points \in {0, 1, 3}
            /\ ledger[k].points = 3 <=> ledger[k].goal_diff > 0
            /\ ledger[k].points = 1 <=> ledger[k].goal_diff = 0
            /\ ledger[k].points = 0 <=> ledger[k].goal_diff < 0

\* A ledger with a win, the loss on its other side, and a draw.
C23_Witness ==
  /\ pc = "loaded"
  /\ \E w \in DOMAIN pointaggregate_df, l \in DOMAIN pointaggregate_df,
        d \in DOMAIN pointaggregate_df :
       /\ pointaggregate_df[w].goal_diff > 0
       /\ pointaggregate_df[l].row = pointaggregate_df[w].row
       /\ pointaggregate_df[l].goal_diff = 0 - pointaggregate_df[w].goal_diff
       /\ pointaggregate_df[d].goal_diff = 0
       /\ pointaggregate_df[d].goals_for > 0

----------------------------------------------------------------------------
\* The rows of rank_history_df the loop has filled so far.
HistoryDone == SubSeq(rank_history_df, 1, checkpoint_pos)

\* C24: in the rank timeline a team with a rank at a checkpoint is ranked
\* anew at every later checkpoint of the league, so that ffill() changes no
\* cell of the rank history.
C24_OnceRankedAlwaysRanked ==
  pc = "timeline" =>
    /\ \A k \in 1..checkpoint_pos, j \in 1..checkpoint_pos :
         \A t \in DOMAIN rank_history_df[k] :
           (k < j /\ rank_history_df[k][t] # NoRank) =>
             /\ t \in DOMAIN stats_at(filtered_df_rank(pointaggregate_df, selected_league),
                                      all_match_dates[j])
             /\ rank_history_df[j][t] # NoRank
    /\ ffill(HistoryDone) = HistoryDone

\* The loop is done; a team ranked at the first checkpoint has no match on
\* the date of a later one, and another team has no rank at the first.
C24_Witness ==
  /\ pc = "timeline"
  /\ checkpoint_pos = Len(all_match_dates)
  /\ checkpoint_pos >= 2
  /\ \E t \in DOMAIN rank_history_df[1], j \in 2..checkpoint_pos :
       /\ rank_history_df[1][t] # NoRank
       /\ \A k \in DOMAIN pointaggregate_df :
            pointaggregate_df[k].team = t =>
              DateKey(pointaggregate_df[k].date) # DateKey(all_match_dates[j])
  /\ \E t \in DOMAIN rank_history_df[1] : rank_history_df[1][t] = NoRank

----------------------------------------------------------------------------
\* The last call was calculate_features and it returned.
FeaturesReturned ==
  /\ last_call # <<>>
  /\ last_call.method = "calculate_features"
  /\ ~last_call.raised

\* The call asked the site and got no standings: the season has no
\* competition id, or the request failed, or the page has no table.
FetchFailed ==
  /\ last_call.fetched # <<>>
  /\ \/ last_call.year \notin DOMAIN J3_COMPETITION_IDS
     \/ last_call.page.kind \in {"http_error", "connection_error", "no_table"}

\* The standings data the claim gives a team of the last call.
ClaimedData(team_name) ==
  LET standings == ranking_cache.v[last_call.year].v[last_call.match_day - 1]
  IN IF last_call.match_day <= 1 \/ FetchFailed
          \/ team_name \notin DOMAIN standings.v
     THEN TeamData(21, 0, 0)
     ELSE standings.v[team_name]

\* C25: when no fetch raises, calculate_features returns a feature dict,
\* never None; a team that is not in the fetched standings, a failed fetch
\* and match_day <= 1 give the team rank 21, goal difference 0 and points 0,
\* and F1_RankDiff is the away rank minus the home rank, F3_GDDiff the home
\* goal difference minus the away goal difference, of those data.
C25_FeatureFallback ==
  FeaturesReturned =>
    LET home == ClaimedData(last_call.teams[1])
        away == ClaimedData(last_call.teams[2])
        features == last_call.value
    IN /\ features.type = "dict"
       /\ DOMAIN features.v = {"F1_RankDiff", "F2_FormDiff", "F3_GDDiff", "F4_HomeAdv"}
       /\ features.v.F1_RankDiff = away.v.rank - home.v.rank
       /\ features.v.F3_GDDiff = home.v.total_goal_diff - away.v.total_goal_diff
       /\ features.v.F2_FormDiff = last_call.recent_points[1] - last_call.recent_points[2]

\* Features of a match of the second round or later between a club of the
\* standings and one that is not in them.
C25_Witness ==
  /\ FeaturesReturned
  /\ last_call.match_day >= 2
  /\ last_call.teams = <<HACHINOHE, RYUKYU>>
  /\ DOMAIN ranking_cache.v[last_call.year].v[last_call.match_day - 1].v = {HACHINOHE}
  /\ last_call.value.v.F1_RankDiff = 20
  /\ last_call.value.v.F3_GDDiff = 2
====
